---- MODULE Spec2Model ----
(***************************************************************************)
(* Column classification and chart inference of the excelcharts backend:   *)
(* profiler.py (infer_dtype, detect_likert_scale, profile_dataset),        *)
(* schemas.py (ColumnProfile, DatasetProfile, ChartCandidate) and          *)
(* inference.py (infer_charts); then the services around them: cache.py   *)
(* (SimpleCache), routes.py (the upload and executive-summary endpoints),  *)
(* parser.py (validate_file_content, clean_dataframe), performance.py      *)
(* (PerformanceMonitor) and middleware.py (CorrelationIDMiddleware).       *)
(*                                                                         *)
(* Python values are modelled as follows.                                  *)
(*   str            a TLA+ string; Len, SubSeq and \o act on its characters*)
(*   Optional[T]    None is <<>>, a present value v is <<v>>               *)
(*   list           a sequence                                             *)
(*   float          an integer number of tenths (1.5 is 15)                *)
(*   pydantic model a record holding exactly the declared fields           *)
(*   a call         [raised |-> FALSE, value |-> v] when it returns v,     *)
(*                  [raised |-> TRUE, error |-> e] when it raises e        *)
(***************************************************************************)
EXTENDS Integers, Sequences, FiniteSets, TLC

VARIABLES df, profile, charts, call, clock, cache, pc, written, op, profile_cache, upload,
          file_cache, request, monitor, middleware

vars == <<df, profile, charts, call, clock, cache, pc, written, op, profile_cache, upload,
          file_cache, request, monitor, middleware>>

\* the engine, the caches and the endpoints
analysis == <<df, profile, charts, call, clock, cache, pc, written, op, profile_cache, upload,
              file_cache, request>>

\* the rest of the process: the performance monitor and the middleware
process == <<monitor, middleware>>

\* the clock, the cache under test with its caller, and the endpoints
service == <<clock, cache, pc, written, op, profile_cache, upload, file_cache, request>>

----------------------------------------------------------------------------
(* Optional values and call outcomes *)

None == <<>>

Some(v) == <<v>>

IsNone(o) == o = <<>>

Get(o) == o[1]

Returned(v) == [raised |-> FALSE, value |-> v]

Raised(e) == [raised |-> TRUE, error |-> e]

----------------------------------------------------------------------------
(* Sequence helpers *)

Range(s) == {s[i] : i \in DOMAIN s}

Take(s, n) == SubSeq(s, 1, IF n < Len(s) THEN n ELSE Len(s))

\* F(v), the value v being computed once and then named
With(v, F(_)) == CHOOSE r \in {F(x) : x \in {v}} : TRUE

RECURSIVE SelectIdx(_, _, _)
\* the indices i >= from of s, ascending, for which keep[i] holds
SelectIdx(keep, from, n) ==
    IF from > n THEN <<>>
    ELSE (IF keep[from] THEN <<from>> ELSE <<>>) \o SelectIdx(keep, from + 1, n)

Filter(s, keep) ==
    With(SelectIdx(keep, 1, Len(s)), LAMBDA idx : [k \in 1..Len(idx) |-> s[idx[k]]])

RECURSIVE Flatten(_)
Flatten(ss) == IF ss = <<>> THEN <<>> ELSE Head(ss) \o Flatten(Tail(ss))

\* the position of pair p among pairs already ordered by key: after every
\* element whose key is <= p's key (so equal keys keep their arrival order)
RECURSIVE InsertByKey(_, _)
InsertByKey(sorted, p) ==
    IF sorted = <<>> THEN <<p>>
    ELSE IF Head(sorted)[2] <= p[2] THEN <<Head(sorted)>> \o InsertByKey(Tail(sorted), p)
    ELSE <<p>> \o sorted

RECURSIVE SortedByKey(_)
\* Python's sorted(pairs, key=lambda x: x[1]): ascending and stable
SortedByKey(pairs) ==
    IF pairs = <<>> THEN <<>>
    ELSE With(SortedByKey(SubSeq(pairs, 1, Len(pairs) - 1)),
              LAMBDA sorted : InsertByKey(sorted, pairs[Len(pairs)]))

----------------------------------------------------------------------------
(* Python str methods *)

UpperAlphabet == "ABCDEFGHIJKLMNOPQRSTUVWXYZ"

LowerAlphabet == "abcdefghijklmnopqrstuvwxyz"

Digits == "0123456789"

Char(s, i) == SubSeq(s, i, i)

CharIn(c, alphabet) == \E k \in 1..Len(alphabet) : Char(alphabet, k) = c

IndexIn(c, alphabet) == CHOOSE k \in 1..Len(alphabet) : Char(alphabet, k) = c

IsSpace(c) == c \in {" ", "\t", "\n", "\r"}

LowerChar(c) ==
    IF CharIn(c, UpperAlphabet) THEN Char(LowerAlphabet, IndexIn(c, UpperAlphabet)) ELSE c

RECURSIVE lower(_)
lower(s) == IF Len(s) = 0 THEN "" ELSE LowerChar(Char(s, 1)) \o lower(SubSeq(s, 2, Len(s)))

RECURSIVE lstrip(_)
lstrip(s) ==
    IF Len(s) > 0 /\ IsSpace(Char(s, 1)) THEN lstrip(SubSeq(s, 2, Len(s))) ELSE s

RECURSIVE rstrip(_)
rstrip(s) ==
    IF Len(s) > 0 /\ IsSpace(Char(s, Len(s))) THEN rstrip(SubSeq(s, 1, Len(s) - 1)) ELSE s

strip(s) == rstrip(lstrip(s))

\* Python's `sub in s`
contains(s, sub) ==
    \E i \in 1..(Len(s) - Len(sub) + 1) : SubSeq(s, i, i + Len(sub) - 1) = sub

isdigit(s) == Len(s) > 0 /\ \A i \in 1..Len(s) : CharIn(Char(s, i), Digits)

RECURSIVE int(_)
\* int() of a string of decimal digits
int(s) ==
    IF Len(s) = 0 THEN 0
    ELSE 10 * int(SubSeq(s, 1, Len(s) - 1)) + (IndexIn(Char(s, Len(s)), Digits) - 1)

\* the length of the longest prefix of s made of digits
DigitRun(s) ==
    CHOOSE n \in 0..Len(s) :
        /\ \A i \in 1..n : CharIn(Char(s, i), Digits)
        /\ (n < Len(s) => ~CharIn(Char(s, n + 1), Digits))

----------------------------------------------------------------------------
(* profiler.py: Likert detection *)

\* the dict literal, in insertion order: <<keyword, polarity>>
POLARITY_KEYWORDS ==
    << <<"strongly disagree", -2>>, <<"very dissatisfied", -2>>, <<"very unlikely", -2>>,
       <<"very poor", -2>>, <<"never", -2>>, <<"not at all", -2>>,
       <<"extremely dissatisfied", -2>>, <<"completely disagree", -2>>,
       <<"totally disagree", -2>>,
       <<"disagree", -1>>, <<"dissatisfied", -1>>, <<"unlikely", -1>>, <<"poor", -1>>,
       <<"rarely", -1>>, <<"seldom", -1>>, <<"bad", -1>>, <<"no", -1>>, <<"false", -1>>,
       <<"neutral", 0>>, <<"neither", 0>>, <<"sometimes", 0>>, <<"average", 0>>,
       <<"moderate", 0>>, <<"uncertain", 0>>, <<"undecided", 0>>, <<"don't know", 0>>,
       <<"i don't know", 0>>, <<"not sure", 0>>, <<"maybe", 0>>, <<"fair", 0>>,
       <<"agree", 1>>, <<"satisfied", 1>>, <<"likely", 1>>, <<"good", 1>>,
       <<"often", 1>>, <<"usually", 1>>, <<"yes", 1>>, <<"true", 1>>,
       <<"strongly agree", 2>>, <<"very satisfied", 2>>, <<"very likely", 2>>,
       <<"excellent", 2>>, <<"always", 2>>, <<"very good", 2>>,
       <<"extremely satisfied", 2>>, <<"completely agree", 2>>, <<"totally agree", 2>> >>

\* re.match(r'^(\d+)\s*[\(\.\-:\s]', v): a run of digits followed, after
\* optional white space, by one of ( . - : or white space. Backtracking lets
\* the last white space character stand for the class, so the match succeeds
\* exactly when the character after the digit run is in the class.
PrefixMatches(v) ==
    LET n == DigitRun(v) IN
        /\ n >= 1
        /\ n < Len(v)
        /\ (IsSpace(Char(v, n + 1)) \/ Char(v, n + 1) \in {"(", ".", "-", ":"})

extract_numeric_prefix(value) ==
    LET v == strip(value) IN
        IF PrefixMatches(v) THEN Some(int(SubSeq(v, 1, DigitRun(v))))
        ELSE IF isdigit(v) THEN Some(int(v))
        ELSE None

get_polarity_score(value) ==
    LET value_lower == strip(lower(value))
        exact == {k \in DOMAIN POLARITY_KEYWORDS : POLARITY_KEYWORDS[k][1] = value_lower}
        partial == {k \in DOMAIN POLARITY_KEYWORDS : contains(value_lower, POLARITY_KEYWORDS[k][1])}
        First(S) == CHOOSE k \in S : \A j \in S : k <= j
    IN  IF exact # {} THEN Some(POLARITY_KEYWORDS[First(exact)][2])
        ELSE IF partial # {} THEN Some(POLARITY_KEYWORDS[First(partial)][2])
        ELSE None

simple_scales ==
    { {"yes", "no"}, {"yes", "no", "maybe"}, {"true", "false"},
      {"true", "false", "i don't know"} }

\* lines 145-150: for each canonical label, the first cleaned value equal to
\* it up to case
MatchCase(order, clean_values) ==
    LET hit(o) == {i \in DOMAIN clean_values : lower(clean_values[i]) = lower(o)}
        first(o) == CHOOSE i \in hit(o) : \A j \in hit(o) : i <= j
    IN  Flatten([k \in DOMAIN order |->
            IF hit(order[k]) = {} THEN <<>> ELSE <<clean_values[first(order[k])]>>])

MostlyNumericLikert(numeric_scores, clean_values) ==
    \* len(numeric_scores) >= len(clean_values) * 0.6
    10 * Len(numeric_scores) >= 6 * Len(clean_values)

MostlyPolarLikert(polarity_scores, clean_values) ==
    \* len(polarity_scores) >= len(clean_values) * 0.5
    2 * Len(polarity_scores) >= Len(clean_values)

LikertResult(is_likert, order) == [is_likert |-> is_likert, order |-> order]

\* lines 93-94: the values trimmed, the empty ones dropped
CleanValues(unique_values) ==
    With([i \in DOMAIN unique_values |-> strip(unique_values[i])],
         LAMBDA stripped : Filter(stripped, [i \in DOMAIN stripped |-> stripped[i] # ""]))

\* the <<value, score>> pairs of the values whose score is not None,
\* scores[i] being the score of clean_values[i]
Scored(clean_values, scores) ==
    With(Filter([i \in DOMAIN clean_values |-> <<clean_values[i], scores[i]>>],
                [i \in DOMAIN clean_values |-> ~IsNone(scores[i])]),
         LAMBDA kept : [i \in DOMAIN kept |-> <<kept[i][1], Get(kept[i][2])>>])

Values(pairs) == [i \in DOMAIN pairs |-> pairs[i][1]]

\* lines 124-151: the yes/no and true/false scales
SimpleScale(clean_values) ==
    With({strip(lower(clean_values[i])) : i \in DOMAIN clean_values},
         LAMBDA normalized :
            IF \E scale \in simple_scales : normalized \subseteq scale
            THEN With(MatchCase(IF "yes" \in normalized
                                THEN (IF "maybe" \in normalized
                                      THEN <<"Yes", "Maybe", "No">> ELSE <<"Yes", "No">>)
                                ELSE IF "true" \in normalized
                                THEN (IF "i don't know" \in normalized
                                      THEN <<"True", "False", "I don't know">>
                                      ELSE <<"True", "False">>)
                                ELSE clean_values,
                                clean_values),
                      LAMBDA result :
                         LikertResult(TRUE, Some(IF result # <<>> THEN result
                                                 ELSE clean_values)))
            ELSE LikertResult(FALSE, None))

\* lines 96-153, on the cleaned values
LikertOfClean(clean_values) ==
    IF Len(clean_values) < 2 THEN LikertResult(FALSE, None)
    ELSE With(Scored(clean_values, [i \in DOMAIN clean_values |->
                                       extract_numeric_prefix(clean_values[i])]),
              LAMBDA numeric_scores :
            IF MostlyNumericLikert(numeric_scores, clean_values)
            THEN LikertResult(TRUE, Some(Values(SortedByKey(numeric_scores))))
            ELSE With(Scored(clean_values, [i \in DOMAIN clean_values |->
                                               get_polarity_score(clean_values[i])]),
                      LAMBDA polarity_scores :
                    IF MostlyPolarLikert(polarity_scores, clean_values)
                    THEN LikertResult(TRUE, Some(Values(SortedByKey(polarity_scores))))
                    ELSE SimpleScale(clean_values)))

detect_likert_scale(unique_values) ==
    IF Len(unique_values) < 2 \/ Len(unique_values) > 10
    THEN LikertResult(FALSE, None)
    ELSE With(CleanValues(unique_values), LikertOfClean)

----------------------------------------------------------------------------
(* pandas: a Series is [name, dtype, cells, na]: the storage dtype, the cell  *)
(* values in row order and the set of rows holding NaN/NaT. A Timestamp is  *)
(* [ymd, iso]: its calendar day as the number yyyymmdd and its isoformat(). *)

NumericStorage == {"int64", "float64", "bool"}

is_numeric_dtype(series) == series.dtype \in NumericStorage

is_float_dtype(series) == series.dtype = "float64"

is_datetime64_any_dtype(series) == series.dtype = "datetime64[ns]"

\* the rows of the series that are not null, in row order
notna(series) ==
    SelectIdx([i \in DOMAIN series.cells |-> i \notin series.na], 1, Len(series.cells))

dropna(series) ==
    With(notna(series), LAMBDA idx : [k \in DOMAIN idx |-> series.cells[idx[k]]])

nunique(series) == Cardinality(Range(dropna(series)))

\* Series.unique(): the distinct values in order of first appearance
Dedup(s) == Filter(s, [i \in DOMAIN s |-> \A j \in 1..(i - 1) : s[j] # s[i]])

\* the number a numeric cell stands for, in tenths when as_float
Num(series, v) ==
    IF series.dtype = "bool" THEN (IF v THEN 1 ELSE 0) ELSE v

\* float(v) of a cell of a numeric series, in tenths
Float(series, v) == IF series.dtype = "float64" THEN v ELSE 10 * Num(series, v)

MaxOf(S) == CHOOSE m \in S : \A x \in S : x <= m

MinOf(S) == CHOOSE m \in S : \A x \in S : m <= x

RECURSIVE SumSeq(_)
SumSeq(s) == IF s = <<>> THEN 0 ELSE Head(s) + SumSeq(Tail(s))

\* characters in code-point order, for comparing str values
Ascii == " $%(),-.0123456789:ABCDEFGHIJKLMNOPQRSTUVWXYZ[]abcdefghijklmnopqrstuvwxyz"

RECURSIVE StrLe(_, _)
\* Python's a <= b on str
StrLe(a, b) ==
    IF Len(a) = 0 THEN TRUE
    ELSE IF Len(b) = 0 THEN FALSE
    ELSE IF Char(a, 1) = Char(b, 1) THEN StrLe(SubSeq(a, 2, Len(a)), SubSeq(b, 2, Len(b)))
    ELSE IndexIn(Char(a, 1), Ascii) < IndexIn(Char(b, 1), Ascii)

RECURSIVE str(_)
\* str() of a non-negative int
str(n) == IF n < 10 THEN Char(Digits, n + 1) ELSE str(n \div 10) \o Char(Digits, (n % 10) + 1)

\* the strings pd.to_datetime parses, among those the tables hold: ISO
\* calendar dates yyyy-mm-dd and four-digit years
IsIsoDate(v) ==
    /\ Len(v) = 10
    /\ isdigit(SubSeq(v, 1, 4)) /\ Char(v, 5) = "-" /\ isdigit(SubSeq(v, 6, 7))
    /\ Char(v, 8) = "-" /\ isdigit(SubSeq(v, 9, 10))
    /\ int(SubSeq(v, 6, 7)) \in 1..12 /\ int(SubSeq(v, 9, 10)) \in 1..31

IsYear(v) == Len(v) = 4 /\ isdigit(v)

ParsesAsDatetime(v) == IsIsoDate(v) \/ IsYear(v)

Timestamp(v) ==
    IF IsIsoDate(v)
    THEN [ymd |-> 10000 * int(SubSeq(v, 1, 4)) + 100 * int(SubSeq(v, 6, 7)) + int(SubSeq(v, 9, 10)),
          iso |-> v \o "T00:00:00"]
    ELSE [ymd |-> 10000 * int(v) + 101, iso |-> v \o "-01-01T00:00:00"]

\* pd.to_datetime(series, errors='coerce'): unparsed cells become NaT
to_datetime(series) ==
    [series EXCEPT
        !.dtype = "datetime64[ns]",
        !.cells = [i \in DOMAIN series.cells |->
                      IF i \notin series.na /\ ParsesAsDatetime(series.cells[i])
                      THEN Timestamp(series.cells[i]) ELSE Timestamp("1970")],
        !.na = series.na \cup {i \in DOMAIN series.cells : ~ParsesAsDatetime(series.cells[i])}]

RECURSIVE RemoveSymbols(_)
\* .str.replace(r'[$€£¥%,]', '', regex=True)
RemoveSymbols(v) ==
    IF Len(v) = 0 THEN ""
    ELSE (IF Char(v, 1) \in {"$", "%", ","} THEN "" ELSE Char(v, 1))
         \o RemoveSymbols(SubSeq(v, 2, Len(v)))

\* the strings pd.to_numeric parses, among those the tables hold: decimal
\* integers, and decimals with one digit after the point
IsIntText(v) == isdigit(v)

IsDecimalText(v) ==
    /\ Len(v) >= 3
    /\ isdigit(SubSeq(v, 1, Len(v) - 2)) /\ Char(v, Len(v) - 1) = "." /\ isdigit(Char(v, Len(v)))

ParsesAsNumber(v) == IsIntText(v) \/ IsDecimalText(v)

\* the parsed number in tenths
TenthsOf(v) ==
    IF IsIntText(v) THEN 10 * int(v)
    ELSE 10 * int(SubSeq(v, 1, Len(v) - 2)) + int(Char(v, Len(v)))

\* pd.to_numeric(cleaned text, errors='coerce') over the whole column: int64
\* when every cell is an integer, float64 as soon as one is NaN or fractional
to_numeric(series) ==
    LET text == [i \in DOMAIN series.cells |-> strip(RemoveSymbols(series.cells[i]))]
        bad == series.na \cup {i \in DOMAIN text : ~ParsesAsNumber(text[i])}
        integral == bad = {} /\ \A i \in DOMAIN text : IsIntText(text[i])
    IN  [series EXCEPT
            !.dtype = IF integral THEN "int64" ELSE "float64",
            !.cells = [i \in DOMAIN text |->
                          IF i \in bad THEN 0
                          ELSE IF integral THEN int(text[i]) ELSE TenthsOf(text[i])],
            !.na = bad]

----------------------------------------------------------------------------
(* profiler.py: survey structure detection *)

RECURSIVE split(_)
\* val.split(',')
split(v) ==
    LET commas == {i \in 1..Len(v) : Char(v, i) = ","} IN
        IF commas = {} THEN <<v>>
        ELSE LET c == MinOf(commas)
             IN  <<SubSeq(v, 1, c - 1)>> \o split(SubSeq(v, c + 1, Len(v)))

\* lines 176-182: the value holds a comma separating two or more non-empty
\* trimmed parts
IsMultiSelect(val) ==
    /\ contains(val, ",")
    /\ LET parts == split(val)
       IN  Cardinality({i \in DOMAIN parts : strip(parts[i]) # ""}) >= 2

CheckboxSample == 200

\* lines 166-206, on the non-null values in row order
CheckboxOf(clean, sample, unique_vals) ==
    LET comma_count == Cardinality({i \in DOMAIN sample : IsMultiSelect(sample[i])})
        unique_count == Cardinality(Range(clean))
        substring_matches ==
            Cardinality({<<i, j>> \in (1..Len(Take(unique_vals, 10))) \X (1..Len(Take(unique_vals, 20))) :
                /\ i < j
                /\ Len(unique_vals[i]) < Len(unique_vals[j])
                /\ contains(unique_vals[j], unique_vals[i])})
    IN  IF sample = <<>> THEN FALSE
        \* comma_count / len(sample) > 0.10
        ELSE IF 10 * comma_count > Len(sample) THEN TRUE
        ELSE IF unique_count > 20 /\ Len(clean) > 10 /\ substring_matches >= 3 THEN TRUE
        ELSE (\E i \in DOMAIN sample : contains(sample[i], ",")) /\ unique_count > 15

detect_checkbox_column(series) ==
    With(dropna(series), LAMBDA clean :
        With(Take(Dedup(clean), 50), LAMBDA unique_vals :
            CheckboxOf(clean, Take(clean, CheckboxSample), unique_vals)))

\* re.match(r'^(.+?)\s*<open>.+<close>$', name): the shortest non-empty prefix
\* after which only white space, the opening bracket, at least one character
\* and the closing bracket at the very end remain
SuffixGroup(column_name, open, close) ==
    LET ends == {p \in 1..Len(column_name) :
                    LET rest == lstrip(SubSeq(column_name, p + 1, Len(column_name)))
                    IN  /\ Len(rest) >= 3
                        /\ Char(rest, 1) = open
                        /\ Char(rest, Len(rest)) = close}
    IN  IF ends = {} THEN None ELSE Some(strip(SubSeq(column_name, 1, MinOf(ends))))

detect_grid_group(column_name) ==
    IF ~IsNone(SuffixGroup(column_name, "[", "]")) THEN SuffixGroup(column_name, "[", "]")
    ELSE SuffixGroup(column_name, "(", ")")

\* lines 243-246: the distinct trimmed non-empty values of a column
ResponseSet(series) == {strip(v) : v \in Range(dropna(series))} \ {""}

\* the groups of two or more object columns holding the same 2 to 10 distinct
\* responses: [columns |-> their names in table order, values |-> the responses].
\* No function of the backend calls it.
detect_shared_response_columns(frame) ==
    With({i \in DOMAIN frame :
             /\ frame[i].dtype = "object"
             /\ Cardinality(ResponseSet(frame[i])) \in 2..10},
         LAMBDA eligible :
            {group \in {[columns |-> Filter([i \in DOMAIN frame |-> frame[i].name],
                                            [i \in DOMAIN frame |->
                                                i \in eligible /\ ResponseSet(frame[i]) = vals]),
                         values |-> vals] :
                           vals \in {ResponseSet(frame[i]) : i \in eligible}} :
                Len(group.columns) >= 2})

\* the four canonical scales, in the order the code tries them
NumericLikertScales == << 1..5, 1..7, 0..10, 1..10 >>

ScaleValues(k) ==
    LET lo == MinOf(NumericLikertScales[k])
        hi == MaxOf(NumericLikertScales[k])
    IN  [i \in 1..(hi - lo + 1) |-> lo + i - 1]

detect_numeric_likert(series) ==
    IF ~is_numeric_dtype(series) \/ dropna(series) = <<>> THEN LikertResult(FALSE, None)
    ELSE With({Num(series, v) : v \in Range(dropna(series))}, LAMBDA unique_vals :
            With({k \in DOMAIN NumericLikertScales : unique_vals \subseteq NumericLikertScales[k]},
                 LAMBDA fits : IF fits = {} THEN LikertResult(FALSE, None)
                               ELSE LikertResult(TRUE, Some(ScaleValues(MinOf(fits))))))

----------------------------------------------------------------------------
(* profiler.py: column classification *)

OrdinalUniqueLimit == 12

OrdinalMaxValue == 50

\* infer_dtype with the unique-count test of line 335 written `<=`
infer_dtype_inclusive(series) ==
    IF is_datetime64_any_dtype(series) THEN "temporal"
    ELSE IF /\ series.dtype = "object"
            /\ \A v \in Range(Take(dropna(series), 100)) : ParsesAsDatetime(v)
    THEN "temporal"
    ELSE IF is_numeric_dtype(series)
    THEN IF nunique(series) <= OrdinalUniqueLimit
         THEN IF is_float_dtype(series) THEN "numeric"
              ELSE IF \E v \in Range(dropna(series)) : Num(series, v) > OrdinalMaxValue
                   THEN "numeric"
              ELSE "ordinal"
         ELSE "numeric"
    ELSE "nominal"

infer_dtype(series) ==
    IF is_datetime64_any_dtype(series) THEN "temporal"
    ELSE IF /\ series.dtype = "object"
            /\ \A v \in Range(Take(dropna(series), 100)) : ParsesAsDatetime(v)
    THEN "temporal"
    ELSE IF is_numeric_dtype(series)
    THEN IF nunique(series) < OrdinalUniqueLimit
         THEN IF is_float_dtype(series) THEN "numeric"
              ELSE IF \E v \in Range(dropna(series)) : Num(series, v) > OrdinalMaxValue
                   THEN "numeric"
              ELSE "ordinal"
         ELSE "numeric"
    ELSE "nominal"

----------------------------------------------------------------------------
(* schemas.py: the pydantic models. A model keeps the keyword arguments it  *)
(* declares and ignores every other one; reading an attribute the instance *)
(* does not hold raises AttributeError.                                     *)

ColumnProfileFields ==
    {"name", "original_name", "dtype", "null_count", "unique_count", "examples",
     "min", "max", "mean"}

ColumnProfileDefaults == [min |-> None, max |-> None, mean |-> None]

ColumnProfile(kwargs) ==
    [f \in ColumnProfileFields |->
        IF f \in DOMAIN kwargs THEN kwargs[f] ELSE ColumnProfileDefaults[f]]

DatasetProfile(row_count, col_count, columns) ==
    [row_count |-> row_count, col_count |-> col_count, columns |-> columns]

ChartCandidateFields ==
    {"chart_type", "x_column", "y_column", "color_column", "score", "spec"}

ChartCandidateDefaults == [y_column |-> None, color_column |-> None]

ChartCandidate(kwargs) ==
    [f \in ChartCandidateFields |->
        IF f \in DOMAIN kwargs THEN kwargs[f] ELSE ChartCandidateDefaults[f]]

hasattr(obj, attr) == attr \in DOMAIN obj

----------------------------------------------------------------------------
(* profiler.py: profile_dataset *)

DatetimeSample == 1000

len(frame) == IF frame = <<>> THEN 0 ELSE Len(frame[1].cells)

\* notna().mean() > 0.8 over the n sampled cells, ok of which parsed
MostlyParsed(ok, n) == 5 * ok > 4 * n

\* lines 368-401: the in-place coercion of one object column, on the sampled
\* non-null values
CoerceBy(series, sample) ==
    LET first_valid == sample[1]
        numeric_ok == Cardinality({i \in DOMAIN sample :
                          ParsesAsNumber(strip(RemoveSymbols(sample[i])))})
        datetime_ok == Cardinality({i \in DOMAIN sample : ParsesAsDatetime(sample[i])})
    IN  IF series.dtype # "object" \/ sample = <<>> THEN series
        ELSE IF /\ \E c \in {"$", "%", ","} : contains(first_valid, c)
                /\ MostlyParsed(numeric_ok, Len(sample))
        THEN to_numeric(series)
        ELSE IF Len(first_valid) > 6 /\ MostlyParsed(datetime_ok, Len(sample))
        THEN to_datetime(series)
        ELSE series

Coerce(series, sample_size) ==
    With(Take(dropna(series), sample_size), LAMBDA sample : CoerceBy(series, sample))

Coerced(frame) ==
    With(IF len(frame) < DatetimeSample THEN len(frame) ELSE DatetimeSample,
         LAMBDA sample_size : [i \in DOMAIN frame |-> Coerce(frame[i], sample_size)])

\* lines 424-454: <<min, max, mean>>, on the non-null values
StatsOf(series, dtype, clean, vals) ==
    IF dtype = "temporal"
    THEN IF clean = <<>> \/ series.unordered THEN <<None, None, None>>
         ELSE IF is_datetime64_any_dtype(series)
         THEN LET lo == CHOOSE t \in vals : \A u \in vals : t.ymd <= u.ymd
                  hi == CHOOSE t \in vals : \A u \in vals : u.ymd <= t.ymd
              IN  <<Some(lo.iso), Some(hi.iso), None>>
         ELSE LET lo == CHOOSE t \in vals : \A u \in vals : StrLe(t, u)
                  hi == CHOOSE t \in vals : \A u \in vals : StrLe(u, t)
              IN  <<Some(lo), Some(hi), None>>
    ELSE IF is_numeric_dtype(series) /\ clean # <<>>
    THEN With([i \in DOMAIN clean |-> Float(series, clean[i])], LAMBDA floats :
            <<Some(MinOf(Range(floats))), Some(MaxOf(Range(floats))),
              Some([sum |-> SumSeq(floats), count |-> Len(floats)])>>)
    ELSE <<None, None, None>>

Stats(series, dtype) ==
    With(dropna(series), LAMBDA clean : StatsOf(series, dtype, clean, Range(clean)))

\* lines 463-471: a column pandas stores as numbers
NumericSurvey(dtype, numeric_likert) ==
    IF dtype = "ordinal" /\ numeric_likert.is_likert
    THEN [dtype |-> dtype, is_checkbox |-> FALSE, is_likert |-> TRUE,
          likert_order |-> Some([i \in DOMAIN Get(numeric_likert.order) |->
                                   str(Get(numeric_likert.order)[i])]),
          grid_group |-> None]
    ELSE [dtype |-> dtype, is_checkbox |-> FALSE, is_likert |-> FALSE,
          likert_order |-> None, grid_group |-> None]

\* TextSurvey without the upgrade of line 484: a column found to be Likert
\* keeps the dtype infer_dtype gave it
TextSurvey_keeps_dtype(series, dtype, is_checkbox) ==
    IF is_checkbox
    THEN [dtype |-> dtype, is_checkbox |-> TRUE, is_likert |-> FALSE,
          likert_order |-> None, grid_group |-> detect_grid_group(series.name)]
    ELSE With(Take(Dedup(dropna(series)), 20), LAMBDA unique_vals :
            With(detect_likert_scale(unique_vals), LAMBDA text_likert :
                [dtype |-> dtype,
                 is_checkbox |-> FALSE, is_likert |-> text_likert.is_likert,
                 likert_order |-> text_likert.order,
                 grid_group |-> detect_grid_group(series.name)]))

\* lines 474-490: a nominal or ordinal column of another storage type
TextSurvey(series, dtype, is_checkbox) ==
    IF is_checkbox
    THEN [dtype |-> dtype, is_checkbox |-> TRUE, is_likert |-> FALSE,
          likert_order |-> None, grid_group |-> detect_grid_group(series.name)]
    ELSE With(Take(Dedup(dropna(series)), 20), LAMBDA unique_vals :
            With(detect_likert_scale(unique_vals), LAMBDA text_likert :
                [dtype |-> IF text_likert.is_likert THEN "ordinal" ELSE dtype,
                 is_checkbox |-> FALSE, is_likert |-> text_likert.is_likert,
                 likert_order |-> text_likert.order,
                 grid_group |-> detect_grid_group(series.name)]))

\* lines 459-490: [dtype, is_checkbox, is_likert, likert_order, grid_group]
Survey(series, dtype) ==
    IF is_numeric_dtype(series)
    THEN With(detect_numeric_likert(series),
              LAMBDA numeric_likert : NumericSurvey(dtype, numeric_likert))
    ELSE IF dtype \in {"nominal", "ordinal"}
    THEN With(detect_checkbox_column(series),
              LAMBDA is_checkbox : TextSurvey(series, dtype, is_checkbox))
    ELSE [dtype |-> dtype, is_checkbox |-> FALSE, is_likert |-> FALSE,
          likert_order |-> None, grid_group |-> None]

\* lines 492-506: the keyword arguments profile_dataset passes to ColumnProfile
KwargsOf(series, stats, survey) ==
    [name |-> series.name, original_name |-> series.name, dtype |-> survey.dtype,
     null_count |-> Cardinality(series.na), unique_count |-> nunique(series),
     examples |-> Take(dropna(series), 3),
     min |-> stats[1], max |-> stats[2], mean |-> stats[3],
     is_checkbox |-> survey.is_checkbox, is_likert |-> survey.is_likert,
     likert_order |-> survey.likert_order, grid_group |-> survey.grid_group]

ColumnKwargs(series) ==
    With(infer_dtype(series), LAMBDA dtype :
        With(Stats(series, dtype), LAMBDA stats :
            With(Survey(series, dtype), LAMBDA survey : KwargsOf(series, stats, survey))))

\* lines 449-454: the numeric statistics run outside any try, so an exception
\* in clean_series.min() leaves profile_dataset
StatsRaise(series, dtype) ==
    /\ dtype # "temporal"
    /\ is_numeric_dtype(series)
    /\ dropna(series) # <<>>
    /\ series.unordered

\* profile_dataset(df) ends in an exception instead of returning
ProfileRaises(frame) ==
    With(Coerced(frame), LAMBDA coerced :
        \E i \in DOMAIN coerced : StatsRaise(coerced[i], infer_dtype(coerced[i])))

profile_dataset(frame) ==
    With(Coerced(frame), LAMBDA coerced :
        DatasetProfile(len(coerced), Len(coerced),
            [i \in DOMAIN coerced |->
                With(coerced[i], LAMBDA series : ColumnProfile(ColumnKwargs(series)))]))

----------------------------------------------------------------------------
(* inference.py: infer_charts. Scores are in hundredths (0.95 is 95). A     *)
(* spec is reduced to the chart it draws, the columns it covers and the    *)
(* sort order it fixes.                                                     *)

VegaSpec(chart, columns, sort) == [chart |-> chart, columns |-> columns, sort |-> sort]

Candidate(chart_type, x, y, color, score, spec) ==
    ChartCandidate([chart_type |-> chart_type, x_column |-> x, y_column |-> y,
                    color_column |-> color, score |-> score, spec |-> spec,
                    group_name |-> "group"])

WithDtype(prof, dtype) ==
    Filter(prof.columns, [i \in DOMAIN prof.columns |-> prof.columns[i].dtype = dtype])

temporal_cols(prof) == WithDtype(prof, "temporal")

numeric_cols(prof) == WithDtype(prof, "numeric")

categorical_cols(prof) == WithDtype(prof, "nominal") \o WithDtype(prof, "ordinal")

\* "id" in col.name.lower()
NamedLikeId(col) == contains(lower(col.name), "id")

\* lines 44-55: the sections read before reading one raises; the except
\* clause keeps what the earlier sections wrote
SectionsRead(structure, skip_ai) ==
    IF skip_ai \/ IsNone(structure) THEN <<>>
    ELSE LET sections == Get(structure)
             bad == {i \in DOMAIN sections : sections[i].malformed}
         IN  IF bad = {} THEN sections ELSE SubSeq(sections, 1, MinOf(bad) - 1)

IsGridSection(section) ==
    \/ section.type = "grid"
    \/ contains(lower(section.title), "rate")
    \/ contains(lower(section.title), "scale")

\* ai_grid_groups: title -> columns, a later section replacing an earlier one
ai_grid_groups(structure, skip_ai) ==
    LET sections == SectionsRead(structure, skip_ai)
        grid == {i \in DOMAIN sections : IsGridSection(sections[i])}
        titles == {sections[i].title : i \in grid}
    IN  [t \in titles |-> sections[MaxOf({i \in grid : sections[i].title = t})].columns]

\* line 74: the numeric column is an identifier
IdLike(col, prof) == NamedLikeId(col) /\ col.unique_count = prof.row_count

\* lines 71-94
TimeValueRule(prof) ==
    LET times == temporal_cols(prof)
        nums == numeric_cols(prof)
    IN  Flatten([t \in DOMAIN times |-> Flatten([n \in DOMAIN nums |->
            IF IdLike(nums[n], prof) THEN <<>>
            ELSE <<Candidate("area", times[t].name, Some(nums[n].name), None, 95,
                             VegaSpec("area", <<times[t].name, nums[n].name>>, None))>>])])

\* the attributes lines 99, 165 and 233 read from every column
SurveyAttributes == {"is_checkbox", "grid_group", "is_likert"}

MissingAttribute(prof) ==
    \E i \in DOMAIN prof.columns :
        \/ \E a \in SurveyAttributes : ~hasattr(prof.columns[i], a)
        \/ prof.columns[i].is_likert /\ ~hasattr(prof.columns[i], "likert_order")

\* lines 99-161
CheckboxRule(prof) ==
    Flatten([i \in DOMAIN prof.columns |->
        IF prof.columns[i].is_checkbox
        THEN <<Candidate("bar", prof.columns[i].name, None, None, 98,
                         VegaSpec("bar", <<prof.columns[i].name>>, None))>>
        ELSE <<>>])

\* the truth value of an Optional[str] and of an Optional[list]
Truthy(opt) == ~IsNone(opt) /\ Len(Get(opt)) > 0

\* lines 165-166: the set the grid rule iterates over
grid_groups(prof, ai_groups) ==
    {Get(prof.columns[i].grid_group) :
        i \in {j \in DOMAIN prof.columns : Truthy(prof.columns[j].grid_group)}}
    \cup DOMAIN ai_groups

\* lines 172-175
group_cols(prof, ai_groups, group_name) ==
    IF group_name \in DOMAIN ai_groups
    THEN Filter(prof.columns, [i \in DOMAIN prof.columns |->
                    prof.columns[i].name \in Range(ai_groups[group_name])])
    ELSE Filter(prof.columns, [i \in DOMAIN prof.columns |->
                    prof.columns[i].grid_group = Some(group_name)])

\* lines 170-229, the groups visited in the order group_order
GridRule(prof, ai_groups, group_order) ==
    Flatten([g \in DOMAIN group_order |->
        LET cols == group_cols(prof, ai_groups, group_order[g])
        IN  IF cols = <<>> THEN <<>>
            ELSE <<Candidate("bar", group_order[g], None, None, 100,
                       VegaSpec("bar", [k \in DOMAIN cols |-> cols[k].name],
                                IF cols[1].is_likert /\ Truthy(cols[1].likert_order)
                                THEN cols[1].likert_order ELSE None))>>])

processed_grid_cols(prof, ai_groups) ==
    UNION {{c.name : c \in Range(group_cols(prof, ai_groups, g))} :
              g \in grid_groups(prof, ai_groups)}

\* lines 233-270
LikertRule(prof, ai_groups) ==
    Flatten([i \in DOMAIN prof.columns |->
        LET col == prof.columns[i] IN
        IF /\ col.is_likert
           /\ Truthy(col.likert_order)
           /\ col.name \notin processed_grid_cols(prof, ai_groups)
        THEN <<Candidate("bar", col.name, None, None, 92,
                         VegaSpec("bar", <<col.name>>, col.likert_order))>>
        ELSE <<>>])

\* lines 273-344
CategoryValueRule(prof) ==
    LET cats == categorical_cols(prof)
        nums == numeric_cols(prof)
        Bar(cat, num, score) ==
            Candidate("bar", cat.name, Some(num.name), None, score,
                      VegaSpec("bar", <<cat.name, num.name>>, None))
    IN  Flatten([c \in DOMAIN cats |->
            IF cats[c].unique_count > 20 THEN <<>>
            ELSE Flatten([n \in DOMAIN nums |->
                    IF NamedLikeId(nums[n]) THEN <<>>
                    ELSE <<Bar(cats[c], nums[n], 85), Bar(cats[c], nums[n], 82),
                           Bar(cats[c], nums[n], 80)>>])])

\* lines 348-376
ScatterRule(prof) ==
    LET nums == numeric_cols(prof) IN
    IF Len(nums) < 2 THEN <<>>
    ELSE Flatten([i \in DOMAIN nums |->
            IF NamedLikeId(nums[i]) THEN <<>>
            ELSE Flatten([j \in DOMAIN nums |->
                    IF j <= i \/ NamedLikeId(nums[j]) THEN <<>>
                    ELSE <<Candidate("scatter", nums[i].name, Some(nums[j].name), None, 70,
                               VegaSpec("scatter", <<nums[i].name, nums[j].name>>, None))>>])])

\* lines 379-397
HistogramRule(prof) ==
    LET nums == numeric_cols(prof) IN
    Flatten([n \in DOMAIN nums |->
        IF NamedLikeId(nums[n]) THEN <<>>
        ELSE <<Candidate("histogram", nums[n].name, None, None, 60,
                         VegaSpec("histogram", <<nums[n].name>>, None))>>])

\* lines 401-435
CategoryCountRule(prof) ==
    LET cats == categorical_cols(prof) IN
    Flatten([c \in DOMAIN cats |->
        (IF cats[c].unique_count <= 5
         THEN <<Candidate("donut", cats[c].name, None, None, 80,
                          VegaSpec("donut", <<cats[c].name>>, None))>>
         ELSE <<>>)
        \o <<Candidate("bar", cats[c].name, None, None,
                       IF cats[c].unique_count > 20 THEN 70 ELSE 75,
                       VegaSpec("bar", <<cats[c].name>>, None))>>])

\* lines 439-454
TimeCountRule(prof) ==
    LET times == temporal_cols(prof) IN
    [t \in DOMAIN times |->
        Candidate("area", times[t].name, None, None, 70,
                  VegaSpec("area", <<times[t].name>>, None))]

\* lines 458-485
HeatmapRule(prof) ==
    LET cats == categorical_cols(prof)
        Least(a, b) == IF a < b THEN a ELSE b
    IN  IF Len(cats) < 2 THEN <<>>
        ELSE Flatten([i \in 1..Least(3, Len(cats)) |->
                IF cats[i].unique_count > 15 THEN <<>>
                ELSE Flatten([j \in 1..Least(4, Len(cats)) |->
                        IF j <= i \/ cats[j].unique_count > 15 THEN <<>>
                        ELSE <<Candidate("heatmap", cats[i].name, Some(cats[j].name), None, 65,
                                   VegaSpec("heatmap", <<cats[i].name, cats[j].name>>, None))>>])])

\* lines 489-513
StackedBarRule(prof) ==
    LET cats == categorical_cols(prof)
        nums == numeric_cols(prof)
    IN  IF /\ Len(cats) >= 2 /\ Len(nums) >= 1
           /\ cats[1].unique_count <= 10 /\ cats[2].unique_count <= 10
        THEN <<Candidate("stacked_bar", cats[1].name, Some(nums[1].name), Some(cats[2].name), 72,
                         VegaSpec("stacked_bar", <<cats[1].name, nums[1].name, cats[2].name>>, None))>>
        ELSE <<>>

MatrixColumns == 5

\* generator.py: generate_correlation_matrix_spec
generate_correlation_matrix_spec(numeric_columns) ==
    VegaSpec("correlation_matrix", Take(numeric_columns, MatrixColumns), None)

\* lines 517-532
CorrelationRule(prof) ==
    LET nums == numeric_cols(prof)
        named == Filter(nums, [n \in DOMAIN nums |-> ~NamedLikeId(nums[n])])
        numeric_col_names == [n \in DOMAIN named |-> named[n].name]
    IN  IF Len(nums) >= 3 /\ Len(numeric_col_names) >= 3
        THEN <<Candidate("correlation_matrix", numeric_col_names[1],
                         Some(numeric_col_names[2]), None, 68,
                         generate_correlation_matrix_spec(Take(numeric_col_names, 5)))>>
        ELSE <<>>

\* lines 32-532: the candidates in the order the rules append them
candidates(prof, structure, skip_ai, group_order) ==
    LET ai_groups == ai_grid_groups(structure, skip_ai) IN
        TimeValueRule(prof) \o CheckboxRule(prof)
        \o GridRule(prof, ai_groups, group_order) \o LikertRule(prof, ai_groups)
        \o CategoryValueRule(prof) \o ScatterRule(prof) \o HistogramRule(prof)
        \o CategoryCountRule(prof) \o TimeCountRule(prof) \o HeatmapRule(prof)
        \o StackedBarRule(prof) \o CorrelationRule(prof)

RECURSIVE InsertByScore(_, _)
InsertByScore(sorted, c) ==
    IF sorted = <<>> THEN <<c>>
    ELSE IF Head(sorted).score >= c.score THEN <<Head(sorted)>> \o InsertByScore(Tail(sorted), c)
    ELSE <<c>> \o sorted

RECURSIVE SortedByScore(_)
\* candidates.sort(key=lambda x: x.score, reverse=True): descending, and
\* stable, so equal scores keep their order
SortedByScore(cs) ==
    IF cs = <<>> THEN <<>>
    ELSE InsertByScore(SortedByScore(SubSeq(cs, 1, Len(cs) - 1)), cs[Len(cs)])

MaxCandidates == 50

infer_charts(prof, structure, skip_ai, group_order) ==
    IF MissingAttribute(prof) THEN Raised("AttributeError")
    ELSE Returned(Take(SortedByScore(candidates(prof, structure, skip_ai, group_order)),
                       MaxCandidates))

----------------------------------------------------------------------------
(* The inputs. Tables are made of the columns below, five rows each; a null *)
(* cell holds a placeholder and its row is listed in na.                    *)

Series(name, dtype, cells, na) ==
    [name |-> name, dtype |-> dtype, cells |-> cells, na |-> na, unordered |-> FALSE]

\* a column whose values cannot be compared with one another, so that its
\* min() and max() raise (an object column mixing str and int, for one)
Unordered(series) == [series EXCEPT !.unordered = TRUE]

TableColumns ==
    { Series("date", "object",
             <<"2024-01-01", "2024-01-02", "2024-01-03", "2024-01-04", "2024-01-05">>, {}),
      Series("when", "datetime64[ns]",
             <<Timestamp("2024-03-02"), Timestamp("2024-03-01"), Timestamp("2024-03-05"),
               Timestamp("1970"), Timestamp("2024-03-04")>>, {4}),
      Series("year", "object", <<"2021", "2020", "2023", "2022", "2020">>, {}),
      Series("value", "int64", <<100, 200, 300, 400, 500>>, {}),
      Series("rating", "int64", <<5, 4, 3, 5, 1>>, {}),
      Series("score", "float64", <<15, 25, 0, 35, 45>>, {3}),
      Series("id", "int64", <<101, 102, 103, 104, 105>>, {}),
      Series("width", "int64", <<60, 60, 70, 80, 90>>, {}),
      Series("price", "object", <<"$100", "$250", "$1,000", "$75", "$300">>, {}),
      Series("flag", "bool", <<TRUE, FALSE, TRUE, TRUE, FALSE>>, {}),
      Series("satisfaction", "object",
             <<"Agree", "Strongly Agree", "Disagree", "Neutral", "Agree">>, {}),
      Series("agreement", "object",
             <<"Neutral", "Agree", "Disagree", "Strongly Agree", "Agree">>, {}),
      Series("tags", "object", <<"A, B", "B, C", "A, C", "A", "">>, {5}),
      Series("city", "object", <<"Paris", "Rome", "Paris", "Oslo", "Rome">>, {}),
      Series("Rate [UI]", "object", <<"Good", "Poor", "Good", "Fair", "Poor">>, {}) }

\* columns whose statistics cannot be computed
UnorderedColumns ==
    { Unordered(Series("period", "object", <<"2021", "2020", "2023", "2022", "2020">>, {})),
      Unordered(Series("reading", "float64", <<15, 25, 5, 35, 45>>, {})) }

MaxCols == 2

\* the sequences of at most n distinct elements of S
RECURSIVE Arrangements(_, _)
Arrangements(S, n) ==
    IF n = 0 THEN {<<>>}
    ELSE LET shorter == Arrangements(S, n - 1)
         IN  shorter \cup
             {Append(p[1], p[2]) :
                 p \in {q \in shorter \X S : Len(q[1]) = n - 1 /\ q[2] \notin Range(q[1])}}

\* the orders in which iterating over the set S can visit its elements
Orders(S) == {o \in Arrangements(S, Cardinality(S)) : Len(o) = Cardinality(S)}

Column(name) == CHOOSE c \in TableColumns \cup UnorderedColumns : c.name = name

\* tables one column of which has statistics that cannot be computed
UnorderedTables ==
    UNION {{<<u>>, <<Column("value"), u>>, <<u, Column("city")>>} : u \in UnorderedColumns}

Tables == Arrangements(TableColumns, MaxCols) \cup UnorderedTables

(* Profiles built directly, as the tests of the inference service build    *)
(* them: the keyword arguments handed to ColumnProfile. The last two are   *)
(* argument lists of the shape profile_dataset passes.                     *)

Kwargs(name, dtype, unique_count) ==
    [name |-> name, original_name |-> name, dtype |-> dtype, null_count |-> 0,
     unique_count |-> unique_count, examples |-> <<>>]

ProfileColumns ==
    { Kwargs("date", "temporal", 10),
      Kwargs("value", "numeric", 10),
      Kwargs("amount", "numeric", 8),
      Kwargs("height", "numeric", 10),
      Kwargs("width", "numeric", 7),
      Kwargs("id", "numeric", 10),
      Kwargs("user_id", "numeric", 10),
      Kwargs("category", "nominal", 3),
      Kwargs("region", "nominal", 4),
      [name |-> "satisfaction", original_name |-> "satisfaction", dtype |-> "ordinal",
       null_count |-> 0, unique_count |-> 4, examples |-> <<>>,
       min |-> None, max |-> None, mean |-> None,
       is_checkbox |-> FALSE, is_likert |-> TRUE,
       likert_order |-> Some(<<"Disagree", "Neutral", "Agree", "Strongly Agree">>),
       grid_group |-> None],
      [name |-> "tags", original_name |-> "tags", dtype |-> "nominal",
       null_count |-> 1, unique_count |-> 4, examples |-> <<>>,
       min |-> None, max |-> None, mean |-> None,
       is_checkbox |-> TRUE, is_likert |-> FALSE, likert_order |-> None,
       grid_group |-> None] }

MaxProfileCols == 3

ProfileRows == 10

BuiltProfiles ==
    {DatasetProfile(ProfileRows, Len(a), [i \in DOMAIN a |-> ColumnProfile(a[i])]) :
        a \in Arrangements(ProfileColumns, MaxProfileCols)}

(* What analyze_dataset_structure may answer: nothing, or sections of the  *)
(* form [title, type, columns]; a malformed section is one whose reading   *)
(* raises.                                                                  *)

Section(title, type, columns) ==
    [title |-> title, type |-> type, columns |-> columns, malformed |-> FALSE]

Malformed == [title |-> "", type |-> "", columns |-> <<>>, malformed |-> TRUE]

Structures ==
    { None,
      Some(<<Section("Metrics", "standard", <<"value", "amount">>)>>),
      Some(<<Section("Ratings", "grid", <<"value", "id">>)>>),
      Some(<<Section("Rate it", "standard", <<"satisfaction">>), Malformed>>),
      Some(<<Malformed, Section("Ratings", "grid", <<"value">>)>>) }

(* The value lists handed to detect_likert_scale *)

LikertValues ==
    {"Agree", "Strongly Agree", "Disagree", "Neutral", "1", "2", "3 - High", "N/A",
     "Yes", "no", "Maybe", " Agree", "Blue", ""}

MaxValues == 3

ValueLists == Arrangements(LikertValues, MaxValues)

(* The numeric series handed to infer_dtype: n consecutive numbers ending  *)
(* at top, the last cell repeating the first when repeat holds              *)

MaxSeriesLen == 13

SeriesTops == {49, 50, 51, 64}

NumericSeries ==
    {Series("x", dtype,
            [i \in 1..n |-> IF repeat /\ i = n THEN top - n + 1 ELSE top - n + i], {}) :
        dtype \in {"int64", "float64"}, n \in 1..MaxSeriesLen,
        top \in SeriesTops, repeat \in BOOLEAN}

(* The string columns handed to detect_checkbox_column: n answers, the     *)
(* first k of them multi-select ("A, B"), then one answer with a comma and *)
(* a single part ("A,") when dangling holds, the others single choices     *)

MaxCheckboxRows == 10

MaxMultiSelect == 2

CheckboxSeries ==
    {Series("choices", "object",
            [i \in 1..n |-> IF i <= k THEN "A, B"
                            ELSE IF dangling /\ i = k + 1 THEN "A,"
                            ELSE IF i % 2 = 0 THEN "A" ELSE "B"], {}) :
        n \in 1..MaxCheckboxRows, k \in 0..MaxMultiSelect, dangling \in BOOLEAN}

----------------------------------------------------------------------------
(* The state: the table being processed, the profile in hand, the last     *)
(* call of infer_charts and the last call of a classifier function.        *)

(***************************************************************************)
(* SimpleCache (app/core/cache.py).  A cache is [_cache, _lock,            *)
(* default_ttl]: _cache maps the stored keys to their CacheEntry, _lock   *)
(* tells whether the threading.Lock is held.  Times are clock ticks.       *)
(***************************************************************************)

CacheEntry(data, timestamp, ttl) == [data |-> data, timestamp |-> timestamp, ttl |-> ttl]

SimpleCache(default_ttl) == [_cache |-> <<>>, _lock |-> FALSE, default_ttl |-> default_ttl]

\* del self._cache[key] for the keys of `keys`
Delete(c, keys) ==
    [c EXCEPT !._cache = [k \in DOMAIN c._cache \ keys |-> c._cache[k]]]

\* time.time() - entry.timestamp > entry.ttl
IsExpired(entry, now) == now - entry.timestamp > entry.ttl

\* get(key) at time now: the value returned and the cache it leaves
get(c, key, now) ==
    IF key \notin DOMAIN c._cache THEN [value |-> None, cache |-> c]
    ELSE IF IsExpired(c._cache[key], now) THEN [value |-> None, cache |-> Delete(c, {key})]
    ELSE [value |-> Some(c._cache[key].data), cache |-> c]

\* ttl or self.default_ttl: None and 0 are both falsy
TtlOrDefault(c, ttl) == IF IsNone(ttl) \/ Get(ttl) = 0 THEN c.default_ttl ELSE Get(ttl)

\* set(key, value, ttl) at time now
set(c, key, value, ttl, now) ==
    [c EXCEPT !._cache =
        [k \in DOMAIN c._cache \cup {key} |->
            IF k = key THEN CacheEntry(value, now, TtlOrDefault(c, ttl)) ELSE c._cache[k]]]

\* cleanup_expired() at time now: the number of entries removed and the cache
cleanup_expired(c, now) ==
    LET expired_keys == {k \in DOMAIN c._cache : IsExpired(c._cache[k], now)}
    IN  [value |-> Cardinality(expired_keys), cache |-> Delete(c, expired_keys)]

\* the dictionary get_stats() returns once cleanup_expired() has returned
get_stats(c) == [size |-> Cardinality(DOMAIN c._cache), default_ttl |-> c.default_ttl]

(***************************************************************************)
(* _process_upload (app/api/routes.py), from the cleaned table on.          *)
(***************************************************************************)

RECURSIVE Join(_)
Join(parts) == IF parts = <<>> THEN "" ELSE IF Len(parts) = 1 THEN parts[1]
               ELSE parts[1] \o "," \o Join(Tail(parts))

\* lines 136-137: the text that is hashed into the key; sha256 is taken to
\* map different texts to different keys
profile_cache_key(frame) ==
    str(len(frame)) \o ":" \o str(Len(frame)) \o ":"
        \o Join([i \in DOMAIN frame |-> frame[i].name \o ":" \o frame[i].dtype])

ProfileTtl == 3600

FallbackScore == 50

\* lines 162-180: the table view synthesized when no candidate was produced
Fallback(frame) ==
    ChartCandidate([chart_type |-> "table", x_column |-> frame[1].name,
                    score |-> FallbackScore,
                    spec |-> VegaSpec("bar", <<frame[1].name>>, None)])

\* lines 261-269: AnalysisResult(profile, recommended_chart, alternatives)
AnalysisResult(prof, chart_candidates) ==
    [profile |-> prof, recommended_chart |-> chart_candidates[1],
     alternatives |-> Tail(chart_candidates)]

\* lines 154-186 and 261-269, and the handler of upload_file that turns any
\* other exception into HTTP 500
Respond(frame, prof, inferred) ==
    IF inferred.raised THEN Raised("HTTP 500")
    ELSE IF inferred.value = <<>>
    THEN IF Len(frame) > 0 THEN Returned(AnalysisResult(prof, <<Fallback(frame)>>))
         ELSE Raised("HTTP 400")
    ELSE Returned(AnalysisResult(prof, inferred.value))

\* lines 131-150: the profile step, reading and writing the profile cache
\* [profile, cached, cache]; profile is None when profile_dataset raised
ProfileStep(frame, c, now) ==
    With(get(c, profile_cache_key(frame), now), LAMBDA hit :
        IF ~IsNone(hit.value)
        THEN [profile |-> hit.value, cached |-> TRUE, cache |-> hit.cache]
        ELSE IF ProfileRaises(frame)
        THEN [profile |-> None, cached |-> FALSE, cache |-> hit.cache]
        ELSE With(profile_dataset(frame), LAMBDA prof :
                [profile |-> Some(prof), cached |-> FALSE,
                 cache |-> set(hit.cache, profile_cache_key(frame), prof,
                               Some(ProfileTtl), now)]))

(***************************************************************************)
(* PerformanceMonitor (app/core/performance.py).  The monitor is           *)
(* [metrics, lock, pc, result]: metrics maps the recorded names to the list   *)
(* of their values (the timestamp and metadata of an entry are never       *)
(* read), lock tells whether _metrics_lock is held, pc is the position of  *)
(* the caller and result what its last call returned.                      *)
(***************************************************************************)

MetricsKept == 1000

\* the last n elements of s: s[-n:]
Last(s, n) == IF Len(s) <= n THEN s ELSE SubSeq(s, Len(s) - n + 1, Len(s))

\* lines 32-40: _metrics[name].append(...), keeping the last 1000 entries
record_metric(metrics, name, value) ==
    [k \in DOMAIN metrics \cup {name} |->
        Last(Append(IF k \in DOMAIN metrics THEN metrics[k] ELSE <<>>, value), MetricsKept)]

\* sorted(values)
Sorted(values) ==
    With(SortedByKey([i \in DOMAIN values |-> <<values[i], values[i]>>]),
         LAMBDA pairs : [i \in DOMAIN pairs |-> pairs[i][1]])

\* lines 51-63: what get_stats(metric_name) returns once it holds the lock;
\* the mean is kept as [sum, count]
metric_stats(metrics, metric_name) ==
    IF metric_name \notin DOMAIN metrics \/ metrics[metric_name] = <<>> THEN None
    ELSE With(metrics[metric_name], LAMBDA values :
            Some([count |-> Len(values),
                  min |-> MinOf(Range(values)), max |-> MaxOf(Range(values)),
                  mean |-> [sum |-> SumSeq(values), count |-> Len(values)],
                  p50 |-> Sorted(values)[(Len(values) \div 2) + 1],
                  p95 |-> Sorted(values)[((Len(values) * 95) \div 100) + 1],
                  p99 |-> Sorted(values)[((Len(values) * 99) \div 100) + 1]]))

Monitor(metrics, lock, position, returned) ==
    [metrics |-> metrics, lock |-> lock, pc |-> position, result |-> returned]

(***************************************************************************)
(* CorrelationIDMiddleware (app/core/middleware.py).  logging holds one    *)
(* record factory for the whole process; the middleware state is           *)
(* [factory, requests]: the factory installed, and for every request that  *)
(* entered dispatch its position and the old_factory it read.              *)
(***************************************************************************)

\* the factory logging has when the process starts
DefaultFactory == [correlation_id |-> 0, old_factory |-> <<>>]

\* lines 31-34: the closure over correlation_id and old_factory
record_factory(correlation_id, old_factory) ==
    [correlation_id |-> correlation_id, old_factory |-> <<old_factory>>]

Logging(factory, requests) == [factory |-> factory, requests |-> requests]

\* the keys, values and times to live handed to the cache under test
Keys == {"key1", "key2"}

CacheValues == {"value1", "value2"}

Ttls == {None, Some(0), Some(1)}

DefaultTtl == 2

MaxClock == 3

ProfileDefaultTtl == 3600

\* the files that are sent, all under one name: two of them parse to tables
\* with the same row count, column names and storage types; "prices" has a
\* header with a double space and a blank last row; "totals" has a header
\* that validate_column_name rejects
File(filename, content) == [filename |-> filename, content |-> content]

Files ==
    {File("survey.xlsx", content) :
        content \in {"cities", "towns", "series", "reading", "prices", "totals"}}

\* parse_file(file): the table pandas reads from the bytes
parse_file(file) ==
    CASE file.content = "cities" -> <<Column("city")>>
      [] file.content = "towns" ->
            <<Series("city", "object", <<"Lima", "Lima", "Oslo", "Lima", "Lima">>, {})>>
      [] file.content = "series" -> <<Column("date"), Column("value")>>
      [] file.content = "reading" -> <<Column("reading")>>
      [] file.content = "prices" ->
            <<Series("unit  price", "object", <<"$100", "$250", "$1,000", "$75", "">>, {5})>>
      [] file.content = "totals" ->
            <<Series("total..", "object", <<"$100", "$250", "$1,000", "$75", "$300">>, {})>>

\* generate_file_cache_key(file_content, filename); sha256 is taken to map
\* different contents and names to different digests
generate_file_cache_key(file) == "file:" \o file.content \o ":" \o file.filename

FileTtl == 1800

FileDefaultTtl == 1800

max_file_rows == 1000000

max_file_columns == 1000

max_cell_size_bytes == 100000

NameLimit == 1000

ReservedNames ==
    {"con", "prn", "aux", "nul"}
        \cup {device \o Char(Digits, n + 1) : device \in {"com", "lpt"}, n \in 1..9}

\* validate_column_name(name); the control characters it also rejects are
\* not among the characters of the headers here
validate_column_name(name) ==
    /\ Len(name) > 0 /\ Len(name) <= NameLimit
    /\ ~contains(name, "..")
    /\ lower(name) \notin ReservedNames

\* validate_file_content(df, filename) raises HTTPException(400)
ValidationRaises(frame) ==
    \/ len(frame) > max_file_rows
    \/ Len(frame) > max_file_columns
    \/ \E i \in DOMAIN frame : ~validate_column_name(frame[i].name)
    \/ \E i \in DOMAIN frame :
          /\ frame[i].dtype = "object"
          /\ \E r \in DOMAIN frame[i].cells :
                r \notin frame[i].na /\ Len(frame[i].cells[r]) > max_cell_size_bytes

\* the rows of a column listed in rows, renumbered
TakeRows(series, rows) ==
    With(SelectIdx([i \in DOMAIN series.cells |-> i \in rows], 1, Len(series.cells)),
         LAMBDA idx :
            [series EXCEPT !.cells = [k \in DOMAIN idx |-> series.cells[idx[k]]],
                           !.na = {k \in DOMAIN idx : idx[k] \in series.na}])

RECURSIVE Collapse(_)
\* one space for every run of spaces inside s
Collapse(s) ==
    IF Len(s) = 0 THEN ""
    ELSE (IF ~IsSpace(Char(s, 1)) THEN Char(s, 1)
          ELSE IF Len(s) > 1 /\ ~IsSpace(Char(s, 2)) THEN " " ELSE "")
         \o Collapse(SubSeq(s, 2, Len(s)))

\* ' '.join(col.split()), newlines having become spaces
sanitize_column_name(col) == Collapse(strip(col))

\* clean_dataframe(df): dropna(how='all') over the rows, then over the
\* columns, then the headers are sanitized
clean_dataframe(frame) ==
    LET rows == {r \in 1..len(frame) : \E i \in DOMAIN frame : r \notin frame[i].na}
        kept == [i \in DOMAIN frame |-> TakeRows(frame[i], rows)]
        columns == Filter(kept, [i \in DOMAIN kept |->
                                    \E r \in DOMAIN kept[i].cells : r \notin kept[i].na])
    IN  [i \in DOMAIN columns |->
            [columns[i] EXCEPT !.name = sanitize_column_name(columns[i].name)]]

\* df.empty
empty(frame) == Len(frame) = 0 \/ len(frame) = 0

\* routes.py lines 97-116: the table a request of /upload works on, whether
\* it was served from the file cache (found is then the table the cache
\* held), and the file cache the step leaves; the cache is given a copy and
\* a hit is copied
ParseStep(file, c, now) ==
    With(get(c, generate_file_cache_key(file), now), LAMBDA served :
        IF ~IsNone(served.value)
        THEN [df |-> Get(served.value), hit |-> TRUE, found |-> served.value,
              cache |-> served.cache]
        ELSE [df |-> parse_file(file), hit |-> FALSE, found |-> None,
              cache |-> set(served.cache, generate_file_cache_key(file), parse_file(file),
                            Some(FileTtl), now)])

\* routes.py lines 336-347: the table a request of /insights/summary works
\* on: the cached table itself on a hit, otherwise the parsed table once
\* validated and cleaned, a copy of which is cached; df is None when
\* validate_file_content raised
SummaryParseStep(file, c, now) ==
    With(get(c, generate_file_cache_key(file), now), LAMBDA served :
        IF ~IsNone(served.value)
        THEN [df |-> served.value, hit |-> TRUE, found |-> served.value,
              cache |-> served.cache]
        ELSE IF ValidationRaises(parse_file(file))
        THEN [df |-> None, hit |-> FALSE, found |-> None, cache |-> served.cache]
        ELSE With(clean_dataframe(parse_file(file)), LAMBDA frame :
                [df |-> Some(frame), hit |-> FALSE, found |-> None,
                 cache |-> set(served.cache, generate_file_cache_key(file), frame,
                               Some(FileTtl), now)]))

\* profile_dataset(df) assigns the coerced columns to df itself: when df is
\* the object the file cache holds under key, the entry holds them too
CoercedInPlace(c, key) ==
    [c EXCEPT !._cache[key].data = Coerced(c._cache[key].data)]

\* what generate_executive_summary may answer: nothing or a text
Summaries == {None, Some("## Executive Summary")}

\* lines 365-370: the body of the response
SummaryBody(summary) ==
    IF ~Truthy(summary) THEN [summary |-> "## Summary Unavailable"]
    ELSE [summary |-> Get(summary)]

\* a request that was handled: found is the table the file cache held when
\* it was served from the cache, handed the table given to profile_dataset
Request(number, endpoint, file, parsed, handed, response) ==
    [number |-> number, endpoint |-> endpoint, file |-> file, hit |-> parsed.hit,
     found |-> parsed.found, handed |-> handed, response |-> response]

Init ==
    /\ df = None
    /\ profile = None
    /\ charts = None
    /\ call = None
    /\ clock = 0
    /\ cache = SimpleCache(DefaultTtl)
    /\ pc = "idle"
    /\ written = <<>>
    /\ op = None
    /\ profile_cache = SimpleCache(ProfileDefaultTtl)
    /\ upload = None
    /\ file_cache = SimpleCache(FileDefaultTtl)
    /\ request = None
    /\ monitor = Monitor(<<>>, FALSE, "idle", None)
    /\ middleware = Logging(DefaultFactory, <<>>)

\* no call of the engine is under way
EngineIdle == IsNone(df) /\ IsNone(profile) /\ IsNone(charts) /\ IsNone(call)

\* the cache under test has not been used
CacheUnused == written = <<>> /\ IsNone(op) /\ pc = "idle"

\* nothing has been uploaded
NoUpload ==
    /\ IsNone(upload) /\ profile_cache = SimpleCache(ProfileDefaultTtl)
    /\ IsNone(request) /\ file_cache = SimpleCache(FileDefaultTtl)

\* the performance monitor has not been used
MonitorUnused == monitor = Monitor(<<>>, FALSE, "idle", None)

\* no request has gone through the middleware
MiddlewareUnused == middleware = Logging(DefaultFactory, <<>>)

\* the rest of the process is untouched
Apart == MonitorUnused /\ MiddlewareUnused

\* nothing has been handed to the engine yet
Idle == EngineIdle /\ clock = 0 /\ CacheUnused /\ NoUpload /\ Apart

\* a caller obtains a table
LoadTable ==
    /\ Idle
    /\ \E frame \in Tables : df' = Some(frame)
    /\ UNCHANGED <<profile, charts, call>>
    /\ UNCHANGED service
    /\ UNCHANGED process

\* profile_dataset(df): coerces the columns of df in place, then profiles them
ProfileDataset ==
    /\ ~IsNone(df)
    /\ IsNone(profile)
    /\ IsNone(call)
    /\ df' = Some(Coerced(Get(df)))
    /\ IF ProfileRaises(Get(df))
       THEN /\ call' = Some([fn |-> "profile_dataset", raised |-> TRUE])
            /\ UNCHANGED <<profile, charts>>
       ELSE /\ profile' = Some(profile_dataset(Get(df)))
            /\ UNCHANGED <<charts, call>>
    /\ UNCHANGED service
    /\ UNCHANGED process

\* DatasetProfile(row_count=..., columns=[ColumnProfile(...), ...])
BuildProfile ==
    /\ Idle
    /\ \E built \in BuiltProfiles : profile' = Some(built)
    /\ UNCHANGED <<df, charts, call>>
    /\ UNCHANGED service
    /\ UNCHANGED process

\* infer_charts(profile, sample_data, skip_ai), the AI answering `structure`
\* and the set of grid groups being iterated in the order group_order
InferCharts ==
    /\ ~IsNone(profile)
    /\ IsNone(charts)
    /\ \E structure \in Structures, skip_ai \in BOOLEAN :
         \E group_order \in
            Orders(IF MissingAttribute(Get(profile)) THEN {}
                   ELSE grid_groups(Get(profile), ai_grid_groups(structure, skip_ai))) :
          charts' = Some([structure |-> structure, skip_ai |-> skip_ai,
                          group_order |-> group_order,
                          outcome |-> infer_charts(Get(profile), structure, skip_ai,
                                                   group_order)])
    /\ UNCHANGED <<df, profile, call>>
    /\ UNCHANGED service
    /\ UNCHANGED process

\* detect_likert_scale(unique_values)
DetectLikert ==
    /\ Idle
    /\ \E unique_values \in ValueLists :
         call' = Some([fn |-> "detect_likert_scale", arg |-> unique_values,
                       ret |-> detect_likert_scale(unique_values)])
    /\ UNCHANGED <<df, profile, charts>>
    /\ UNCHANGED service
    /\ UNCHANGED process

\* infer_dtype(series)
InferDtype ==
    /\ Idle
    /\ \E series \in NumericSeries :
         call' = Some([fn |-> "infer_dtype", arg |-> series, ret |-> infer_dtype(series)])
    /\ UNCHANGED <<df, profile, charts>>
    /\ UNCHANGED service
    /\ UNCHANGED process

\* detect_checkbox_column(series)
DetectCheckbox ==
    /\ Idle
    /\ \E series \in CheckboxSeries :
         call' = Some([fn |-> "detect_checkbox_column", arg |-> series,
                       ret |-> detect_checkbox_column(series)])
    /\ UNCHANGED <<df, profile, charts>>
    /\ UNCHANGED service
    /\ UNCHANGED process

\* time.time() advances
Tick ==
    /\ EngineIdle /\ Apart
    /\ clock < MaxClock
    /\ clock' = clock + 1
    /\ UNCHANGED <<df, profile, charts, call, cache, pc, written, op, profile_cache, upload, file_cache, request>>
    /\ UNCHANGED process

\* a caller may start an operation of the cache under test
CanCall == EngineIdle /\ NoUpload /\ Apart /\ pc = "idle"

\* cache.set(key, value, ttl); `with self._lock` waits for the lock.
\* written[key] remembers the arguments and the time of the last set on key
CacheSet ==
    /\ CanCall
    /\ ~cache._lock
    /\ \E key \in Keys, value \in CacheValues, ttl \in Ttls :
         /\ cache' = set(cache, key, value, ttl, clock)
         /\ written' = [k \in DOMAIN written \cup {key} |->
                          IF k = key THEN [value |-> value, ttl |-> ttl, at |-> clock]
                          ELSE written[k]]
         /\ op' = Some([fn |-> "set", key |-> key, at |-> clock])
    /\ UNCHANGED <<df, profile, charts, call, clock, pc, profile_cache, upload, file_cache, request>>
    /\ UNCHANGED process

\* cache.get(key)
CacheGet ==
    /\ CanCall
    /\ ~cache._lock
    /\ \E key \in Keys :
         /\ cache' = get(cache, key, clock).cache
         /\ op' = Some([fn |-> "get", key |-> key, at |-> clock,
                        ret |-> get(cache, key, clock).value])
    /\ UNCHANGED <<df, profile, charts, call, clock, pc, written, profile_cache, upload, file_cache, request>>
    /\ UNCHANGED process

\* cache.get_stats() enters `with self._lock` and is about to call
\* self.cleanup_expired()
GetStats ==
    /\ CanCall
    /\ ~cache._lock
    /\ cache' = [cache EXCEPT !._lock = TRUE]
    /\ pc' = "get_stats"
    /\ op' = Some([fn |-> "get_stats", at |-> clock])
    /\ UNCHANGED <<df, profile, charts, call, clock, written, profile_cache, upload, file_cache, request>>
    /\ UNCHANGED process

\* cleanup_expired(), called by a caller or from within get_stats(): it
\* waits for the lock, removes the expired entries and returns; get_stats()
\* then returns its dictionary and leaves its own `with self._lock`
CleanupExpired ==
    /\ EngineIdle /\ NoUpload /\ Apart
    /\ ~cache._lock
    /\ IF pc = "get_stats"
       THEN /\ cache' = [cleanup_expired(cache, clock).cache EXCEPT !._lock = FALSE]
            /\ op' = Some([fn |-> "get_stats", at |-> clock,
                           ret |-> get_stats(cleanup_expired(cache, clock).cache)])
       ELSE /\ cache' = cleanup_expired(cache, clock).cache
            /\ op' = Some([fn |-> "cleanup_expired", at |-> clock,
                           ret |-> cleanup_expired(cache, clock).value])
    /\ pc' = "idle"
    /\ UNCHANGED <<df, profile, charts, call, clock, written, profile_cache, upload, file_cache, request>>
    /\ UNCHANGED process

\* the requests the endpoints handle
MaxRequests == 2

Handled == IF IsNone(request) THEN 0 ELSE Get(request).number

\* POST /upload; infer_charts is called without skip_ai, the AI answering
\* `structure`
Upload ==
    /\ EngineIdle /\ CacheUnused /\ Apart
    /\ Handled < MaxRequests
    /\ \E file \in Files :
       \E parsed \in {ParseStep(file, file_cache, clock)} :
         /\ file_cache' = parsed.cache
         /\ IF ValidationRaises(parsed.df) \/ empty(clean_dataframe(parsed.df))
            THEN /\ request' = Some(Request(Handled + 1, "upload", file, parsed, None,
                                            Raised("HTTP 400")))
                 /\ UNCHANGED <<profile_cache, upload>>
            ELSE \E frame \in {clean_dataframe(parsed.df)} :
                 \E step \in {ProfileStep(frame, profile_cache, clock)} :
                 \E structure \in Structures :
                 \E group_order \in
                    Orders(IF IsNone(step.profile) \/ MissingAttribute(Get(step.profile))
                           THEN {}
                           ELSE grid_groups(Get(step.profile),
                                            ai_grid_groups(structure, FALSE))) :
                 \E response \in
                    {IF IsNone(step.profile) THEN Raised("HTTP 500")
                     ELSE Respond(frame, Get(step.profile),
                                  infer_charts(Get(step.profile), structure,
                                               FALSE, group_order))} :
                   /\ profile_cache' = step.cache
                   /\ upload' = Some([df |-> frame, cached |-> step.cached,
                                      profile |-> step.profile, response |-> response])
                   /\ request' = Some(Request(Handled + 1, "upload", file, parsed,
                                              IF step.cached THEN None ELSE Some(frame),
                                              response))
    /\ UNCHANGED <<df, profile, charts, call, clock, cache, pc, written, op>>
    /\ UNCHANGED process

\* POST /insights/summary, generate_executive_summary answering `summary`
ExecutiveSummary ==
    /\ EngineIdle /\ CacheUnused /\ Apart
    /\ Handled < MaxRequests
    /\ \E file \in Files :
       \E parsed \in {SummaryParseStep(file, file_cache, clock)} :
         IF IsNone(parsed.df) \/ empty(Get(parsed.df))
         THEN /\ file_cache' = parsed.cache
              /\ request' = Some(Request(Handled + 1, "summary", file, parsed, None,
                                         Raised("HTTP 400")))
              /\ UNCHANGED profile_cache
         ELSE \E step \in {ProfileStep(Get(parsed.df), profile_cache, clock)} :
              \E summary \in Summaries :
              /\ profile_cache' = step.cache
              /\ file_cache' = IF parsed.hit /\ ~step.cached
                               THEN CoercedInPlace(parsed.cache, generate_file_cache_key(file))
                               ELSE parsed.cache
              /\ request' = Some(Request(Handled + 1, "summary", file, parsed,
                                         IF step.cached THEN None ELSE parsed.df,
                                         IF IsNone(step.profile) THEN Raised("HTTP 500")
                                         ELSE Returned(SummaryBody(summary))))
    /\ UNCHANGED <<df, profile, charts, call, clock, cache, pc, written, op, upload>>
    /\ UNCHANGED process

\* integer columns of two answers on or next to the numeric scales
ScaleAnswers == {0, 1, 5, 7, 8, 10, 11}

ScaleSeries ==
    {Series("nps", "int64", <<a, b>>, {}) : a \in ScaleAnswers, b \in ScaleAnswers}

\* detect_numeric_likert(series)
DetectNumericLikert ==
    /\ Idle
    /\ \E series \in ScaleSeries :
         call' = Some([fn |-> "detect_numeric_likert", arg |-> series,
                       ret |-> detect_numeric_likert(series)])
    /\ UNCHANGED <<df, profile, charts>>
    /\ UNCHANGED service
    /\ UNCHANGED process

\* the names and durations (in tenths of a second) that are recorded
MetricNames == {"parse_file", "profile_dataset"}

MetricValues == {1, 2, 3}

MaxRecorded == 2

\* nothing but the performance monitor is in use
MonitorOnly == EngineIdle /\ clock = 0 /\ CacheUnused /\ NoUpload /\ MiddlewareUnused

\* PerformanceMonitor.record_metric(name, value); `with _metrics_lock`
\* waits for the lock
RecordMetric ==
    /\ MonitorOnly
    /\ monitor.pc = "idle" /\ ~monitor.lock
    /\ \E name \in MetricNames, value \in MetricValues :
         /\ name \in DOMAIN monitor.metrics => Len(monitor.metrics[name]) < MaxRecorded
         /\ monitor' = Monitor(record_metric(monitor.metrics, name, value), FALSE, "idle",
                               Some([fn |-> "record_metric"]))
    /\ UNCHANGED <<analysis, middleware>>

\* PerformanceMonitor.get_all_metrics() enters `with _metrics_lock`; over no
\* name the comprehension is empty and the call returns {}, otherwise it is
\* about to call PerformanceMonitor.get_stats(name)
GetAllMetrics ==
    /\ MonitorOnly
    /\ monitor.pc = "idle" /\ ~monitor.lock
    /\ monitor' = IF DOMAIN monitor.metrics = {}
                  THEN Monitor(monitor.metrics, FALSE, "idle",
                               Some([fn |-> "get_all_metrics", value |-> <<>>]))
                  ELSE Monitor(monitor.metrics, TRUE, "get_all_metrics", None)
    /\ UNCHANGED <<analysis, middleware>>

\* PerformanceMonitor.get_stats(name), called by a caller or for each name
\* from within get_all_metrics(): it waits for the lock and returns the
\* statistics; get_all_metrics() then returns its dictionary and leaves its
\* own `with _metrics_lock`
GetMetricStats ==
    /\ MonitorOnly
    /\ ~monitor.lock
    /\ IF monitor.pc = "get_all_metrics"
       THEN monitor' = Monitor(monitor.metrics, FALSE, "idle",
                         Some([fn |-> "get_all_metrics",
                               value |-> [name \in DOMAIN monitor.metrics |->
                                            metric_stats(monitor.metrics, name)]]))
       ELSE \E metric_name \in MetricNames :
              monitor' = Monitor(monitor.metrics, FALSE, "idle",
                           Some([fn |-> "get_stats", name |-> metric_name,
                                 value |-> metric_stats(monitor.metrics, metric_name)]))
    /\ UNCHANGED <<analysis, middleware>>

\* the requests handled at the same time, each with its correlation id
MaxConcurrent == 2

CorrelationIds == 1..MaxConcurrent

\* request durations, in tenths of a second
Durations == {1, 2}

\* nothing but the middleware is in use, the monitor holding only what the
\* middleware recorded
MiddlewareOnly ==
    /\ EngineIdle /\ clock = 0 /\ CacheUnused /\ NoUpload
    /\ monitor.pc = "idle" /\ ~monitor.lock /\ IsNone(monitor.result)
    /\ DOMAIN monitor.metrics \subseteq {"request_duration"}

\* dispatch, lines 20-47: up to `await call_next(request)`, where other
\* requests run
Dispatch ==
    /\ MiddlewareOnly
    /\ \E correlation_id \in CorrelationIds \ DOMAIN middleware.requests :
         middleware' =
            Logging(record_factory(correlation_id, middleware.factory),
                    [r \in DOMAIN middleware.requests \cup {correlation_id} |->
                        IF r = correlation_id
                        THEN [at |-> "call_next", old_factory |-> middleware.factory]
                        ELSE middleware.requests[r]])
    /\ UNCHANGED <<analysis, monitor>>

\* dispatch, lines 47-116: call_next has returned (the duration is recorded)
\* or raised; either way old_factory is installed again
Complete ==
    /\ MiddlewareOnly
    /\ \E correlation_id \in DOMAIN middleware.requests, failed \in BOOLEAN,
          duration \in Durations :
         /\ middleware.requests[correlation_id].at = "call_next"
         /\ middleware' =
               Logging(middleware.requests[correlation_id].old_factory,
                       [middleware.requests EXCEPT ![correlation_id].at = "done"])
         /\ monitor' =
               IF failed THEN monitor
               ELSE Monitor(record_metric(monitor.metrics, "request_duration", duration),
                            FALSE, "idle", None)
    /\ UNCHANGED analysis

Next ==
    \/ Dispatch
    \/ Complete
    \/ RecordMetric
    \/ GetAllMetrics
    \/ GetMetricStats
    \/ Tick
    \/ CacheSet
    \/ CacheGet
    \/ GetStats
    \/ CleanupExpired
    \/ Upload
    \/ ExecutiveSummary
    \/ LoadTable
    \/ ProfileDataset
    \/ BuildProfile
    \/ InferCharts
    \/ DetectLikert
    \/ InferDtype
    \/ DetectCheckbox
    \/ DetectNumericLikert

Spec == Init /\ [][Next]_vars

\* a thread inside get_stats() or get_all_metrics() keeps running: once it
\* can take the lock, the call it is about to make proceeds
LiveSpec == Spec /\ WF_vars(CleanupExpired) /\ WF_vars(GetMetricStats)


----------------------------------------------------------------------------
(* Properties. A property of infer_charts is read in the states where      *)
(* charts holds a call; one of profile_dataset where df and profile both   *)
(* hold a value; one of a classifier where call holds its call.            *)

\* the place of candidate i of cs when cs is put in descending order of score,
\* equal scores in the order of cs
Rank(cs, i) ==
    1 + Cardinality({j \in DOMAIN cs :
                        \/ cs[j].score > cs[i].score
                        \/ cs[j].score = cs[i].score /\ j < i})

\* the columns of prof that are numeric and not ID-like
UsableNumeric(prof) ==
    {i \in DOMAIN prof.columns :
        prof.columns[i].dtype = "numeric" /\ ~IdLike(prof.columns[i], prof)}

\* the columns of prof that are numeric and ID-like
IdColumns(prof) ==
    {i \in DOMAIN prof.columns :
        prof.columns[i].dtype = "numeric" /\ IdLike(prof.columns[i], prof)}

\* C1: for every profile, infer_charts returns exactly the first min(50, n)
\* of the n candidates its rules generate, in descending order of score, the
\* candidates of equal score in the order the rules generated them.
C1_ReturnsTopCandidates ==
    ~IsNone(charts) =>
        /\ ~Get(charts).outcome.raised
        /\ LET generated == candidates(Get(profile), Get(charts).structure,
                                       Get(charts).skip_ai, Get(charts).group_order)
               returned == Get(charts).outcome.value
           IN  /\ Len(returned) = IF Len(generated) < 50 THEN Len(generated) ELSE 50
               /\ \A i \in DOMAIN generated :
                     Rank(generated, i) <= 50 => returned[Rank(generated, i)] = generated[i]

\* C2: for a profile of one temporal column and one numeric column that is
\* not ID-like, the first candidate infer_charts returns is the area chart of
\* the numeric column over the temporal one, with score 0.95.
C2_TimeValueFirst ==
    (/\ ~IsNone(charts)
     /\ Len(Get(profile).columns) = 2
     /\ \E t \in DOMAIN Get(profile).columns : Get(profile).columns[t].dtype = "temporal"
     /\ UsableNumeric(Get(profile)) # {})
    => /\ ~Get(charts).outcome.raised
       /\ Get(charts).outcome.value # <<>>
       /\ LET first == Get(charts).outcome.value[1]
              cols == Get(profile).columns
          IN  /\ first.chart_type = "area"
              /\ first.score = 95
              /\ \E t \in DOMAIN cols :
                    cols[t].dtype = "temporal" /\ first.x_column = cols[t].name
              /\ \E n \in UsableNumeric(Get(profile)) : first.y_column = Some(cols[n].name)

\* C3: when the profile has no columns, or every column is an ID-like
\* numeric column, infer_charts returns the empty list and does not raise.
C3_NothingUsableGivesEmpty ==
    (/\ ~IsNone(charts)
     /\ IdColumns(Get(profile)) = DOMAIN Get(profile).columns)
    => Get(charts).outcome = Returned(<<>>)

\* C4: for every profile with at least 3 numeric columns that are not
\* ID-like, the list infer_charts returns holds exactly one
\* correlation_matrix candidate, and its spec covers at most 5 columns.
C4_OneCorrelationMatrix ==
    (/\ ~IsNone(charts)
     /\ Cardinality(UsableNumeric(Get(profile))) >= 3)
    => /\ ~Get(charts).outcome.raised
       /\ LET returned == Get(charts).outcome.value
              matrices == {k \in DOMAIN returned :
                              returned[k].chart_type = "correlation_matrix"}
          IN  /\ Cardinality(matrices) = 1
              /\ \A k \in matrices : Len(returned[k].spec.columns) <= 5

\* C5: every numeric column that is not ID-like (its name holds "id" and its
\* unique_count equals row_count) gets one histogram candidate of score 0.60
\* among the candidates of infer_charts.
C5_HistogramPerNumeric ==
    ~IsNone(charts) =>
        \A n \in UsableNumeric(Get(profile)) :
            /\ ~Get(charts).outcome.raised
            /\ LET returned == Get(charts).outcome.value
               IN  Cardinality({k \in DOMAIN returned :
                        /\ returned[k].chart_type = "histogram"
                        /\ returned[k].x_column = Get(profile).columns[n].name
                        /\ returned[k].score = 60}) = 1

\* C6: chart inference skips ID columns: infer_charts returns its candidates
\* and none of them has an ID-like numeric column as x_column or y_column.
C6_IdColumnsSkipped ==
    (/\ ~IsNone(charts)
     /\ IdColumns(Get(profile)) # {})
    => /\ ~Get(charts).outcome.raised
       /\ \A k \in DOMAIN Get(charts).outcome.value : \A i \in IdColumns(Get(profile)) :
             /\ Get(charts).outcome.value[k].x_column # Get(profile).columns[i].name
             /\ Get(charts).outcome.value[k].y_column # Some(Get(profile).columns[i].name)

C8_StatsOnlyWhereMeaningful ==
    (~IsNone(df) /\ ~IsNone(profile)) =>
        \A i \in DOMAIN Get(profile).columns :
            LET col == Get(profile).columns[i]
            IN  /\ col.dtype # "numeric" => IsNone(col.mean)
                /\ col.dtype \notin {"numeric", "temporal"} =>
                      IsNone(col.min) /\ IsNone(col.max) /\ IsNone(col.mean)

\* C9: profiling a table whose string column holds Agree, Strongly Agree,
\* Disagree, Neutral, Agree yields a column profile that carries
\* is_likert = true and a likert_order ending with "Strongly Agree" in which
\* "Disagree" comes before "Neutral".
C9_SatisfactionIsLikert ==
    (~IsNone(df) /\ ~IsNone(profile)) =>
        \A i \in DOMAIN Get(df) :
            (/\ Get(df)[i].name = "satisfaction"
             /\ Get(df)[i].dtype = "object"
             /\ Get(df)[i].cells = <<"Agree", "Strongly Agree", "Disagree", "Neutral", "Agree">>
             /\ Get(df)[i].na = {})
            => LET col == Get(profile).columns[i]
               IN  /\ hasattr(col, "is_likert")
                   /\ col.is_likert
                   /\ hasattr(col, "likert_order")
                   /\ ~IsNone(col.likert_order)
                   /\ LET order == Get(col.likert_order)
                      IN  /\ order[Len(order)] = "Strongly Agree"
                          /\ \E a, b \in DOMAIN order :
                                a < b /\ order[a] = "Disagree" /\ order[b] = "Neutral"

\* C10: whenever detect_likert_scale reports a Likert scale, the order it
\* returns is a reordering of the distinct trimmed non-empty values: each of
\* them is in it exactly once and nothing else is.
C10_OrderIsPermutation ==
    (/\ ~IsNone(call)
     /\ Get(call).fn = "detect_likert_scale"
     /\ Get(call).ret.is_likert)
    => LET distinct == {strip(Get(call).arg[i]) : i \in DOMAIN Get(call).arg} \ {""}
           order == Get(Get(call).ret.order)
       IN  /\ Range(order) = distinct
           /\ Len(order) = Cardinality(distinct)

\* C11: Likert detection depends only on the set of values: supplied in any
\* other order, the same distinct values get the same is_likert and the same
\* likert_order.
C11_LikertOrderIndependent ==
    (~IsNone(call) /\ Get(call).fn = "detect_likert_scale") =>
        \A other \in Orders(Range(Get(call).arg)) :
            detect_likert_scale(other) = Get(call).ret

\* C12: for every integer column classified ordinal whose values all lie in
\* 1..5, the column profile has is_likert = true and
\* likert_order = ["1", "2", "3", "4", "5"], whichever of the values occur.
C12_NumericLikertOneToFive ==
    (~IsNone(df) /\ ~IsNone(profile)) =>
        \A i \in DOMAIN Get(df) :
            (/\ Get(df)[i].dtype = "int64"
             /\ Get(df)[i].na = {}
             /\ \A k \in DOMAIN Get(df)[i].cells : Get(df)[i].cells[k] \in 1..5
             /\ Get(profile).columns[i].dtype = "ordinal")
            => LET col == Get(profile).columns[i]
               IN  /\ hasattr(col, "is_likert")
                   /\ col.is_likert
                   /\ hasattr(col, "likert_order")
                   /\ col.likert_order = Some(<<"1", "2", "3", "4", "5">>)

\* C13: detect_checkbox_column returns true for every string column in
\* which at least 10% of the first 200 non-null values hold a comma
\* separating two or more non-empty trimmed parts, exactly 10% included.
C13_CheckboxAtTenPercent ==
    (~IsNone(call) /\ Get(call).fn = "detect_checkbox_column") =>
        LET sample == Take(dropna(Get(call).arg), 200)
            multi == Cardinality({i \in DOMAIN sample : IsMultiSelect(sample[i])})
        IN  (sample # <<>> /\ 10 * multi >= Len(sample)) => Get(call).ret = TRUE

\* C14: when two or more string columns hold identical sets of 2 to 10
\* distinct responses, profiling followed by chart inference treats them as
\* one grid, whatever their names: their profiles share a grid group and
\* infer_charts returns a grid candidate covering them.
C14_SharedResponsesFormGrid ==
    (~IsNone(df) /\ ~IsNone(profile) /\ ~IsNone(charts)) =>
        \A group \in detect_shared_response_columns(Get(df)) :
            LET cols == Get(profile).columns
                members == {i \in DOMAIN cols : cols[i].name \in Range(group.columns)}
            IN  /\ \A i \in members : hasattr(cols[i], "grid_group")
                /\ \E g \in {cols[i].grid_group : i \in members} :
                      ~IsNone(g) /\ \A i \in members : cols[i].grid_group = g
                /\ ~Get(charts).outcome.raised
                /\ \E k \in DOMAIN Get(charts).outcome.value :
                      Range(group.columns) \subseteq
                          Range(Get(charts).outcome.value[k].spec.columns)

\* C15: when the statistics of a column raise, temporal or numeric,
\* profile_dataset still returns a profile holding every column in source
\* order, the failing column with null min, max and mean.
C15_StatsFailureIsolated ==
    (/\ ~IsNone(df)
     /\ \E i \in DOMAIN Get(df) : Get(df)[i].unordered
     /\ \/ ~IsNone(profile)
        \/ ~IsNone(call) /\ Get(call).fn = "profile_dataset") =>
        /\ ~IsNone(profile)
        /\ Len(Get(profile).columns) = Len(Get(df))
        /\ \A i \in DOMAIN Get(df) :
              /\ Get(profile).columns[i].name = Get(df)[i].name
              /\ Get(df)[i].unordered =>
                    /\ Get(profile).columns[i].min = None
                    /\ Get(profile).columns[i].max = None
                    /\ Get(profile).columns[i].mean = None

\* C16: when one chart rule raises (here the checkbox rule, reading an
\* attribute a column lacks), infer_charts still returns the candidates of the
\* other rules, those of the time-value rule among them.
C16_RuleFailureIsolated ==
    (~IsNone(charts) /\ MissingAttribute(Get(profile))) =>
        /\ ~Get(charts).outcome.raised
        /\ Range(TimeValueRule(Get(profile))) \subseteq Range(Get(charts).outcome.value)

\* C17: every upload of a table that is non-empty after cleaning yields a
\* result with a recommended chart: the highest-scored candidate, or, when
\* infer_charts returned none, the fallback table view of the first column
\* with score 0.5 and no alternatives.
C17_UploadRecommendsChart ==
    (~IsNone(upload) /\ Len(Get(upload).df) > 0 /\ len(Get(upload).df) > 0) =>
        LET response == Get(upload).response IN
            /\ ~response.raised
            /\ \A i \in DOMAIN response.value.alternatives :
                  response.value.alternatives[i].score
                      <= response.value.recommended_chart.score
            /\ response.value.recommended_chart.chart_type = "table" =>
                  /\ response.value.recommended_chart.score = FallbackScore
                  /\ response.value.recommended_chart.x_column = Get(upload).df[1].name
                  /\ response.value.alternatives = <<>>

\* C18: the profile an upload works with, computed or served from the
\* profile cache, is the profile of the uploaded table itself.
C18_ProfileIsOfOwnData ==
    (~IsNone(upload) /\ ~IsNone(Get(upload).profile)) =>
        /\ ~ProfileRaises(Get(upload).df)
        /\ Get(Get(upload).profile) = profile_dataset(Get(upload).df)

\* C19: for every ttl >= 0, get(key) after set(key, value, ttl) returns value
\* while the time elapsed since the last set on key is at most ttl
\* (default_ttl when none was given), and None once it exceeds it, the
\* expired entry then being gone from the cache.
C19_ValueLivesForTtl ==
    (~IsNone(op) /\ Get(op).fn = "get" /\ Get(op).key \in DOMAIN written) =>
        LET last == written[Get(op).key]
            ttl == IF IsNone(last.ttl) THEN cache.default_ttl ELSE Get(last.ttl)
        IN  IF Get(op).at - last.at <= ttl
            THEN Get(op).ret = Some(last.value)
            ELSE Get(op).ret = None /\ Get(op).key \notin DOMAIN cache._cache

\* C20: a call of get_stats() always returns.
C20_GetStatsReturns == (pc = "get_stats") ~> (pc = "idle")

\* C21: after any sequence of record_metric calls, a call of
\* get_all_metrics() returns, with the statistics get_stats gives for each
\* recorded name.
C21_GetAllMetricsReturns ==
    (monitor.pc = "get_all_metrics") ~>
        (/\ monitor.pc = "idle"
         /\ ~IsNone(monitor.result)
         /\ Get(monitor.result).fn = "get_all_metrics"
         /\ \A name \in DOMAIN monitor.metrics :
               Get(monitor.result).value[name] = metric_stats(monitor.metrics, name))

\* C22: whatever the profile, infer_charts returns, and returns at most 5
\* candidates.
C22_AtMostFiveCandidates ==
    ~IsNone(charts) =>
        /\ ~Get(charts).outcome.raised
        /\ Len(Get(charts).outcome.value) <= 5

\* C23: of the columns profile_dataset found to be Likert with a non-empty
\* order, one that belongs to a grid group with a grid candidate yields no
\* single-Likert candidate (score 0.92), and every other one yields exactly
\* one, sorted by its likert_order.
C23_SingleLikertOutsideGrids ==
    (~IsNone(df) /\ ~IsNone(profile) /\ ~IsNone(charts)) =>
        /\ ~Get(charts).outcome.raised
        /\ \A i \in DOMAIN Get(df) :
              LET kwargs == ColumnKwargs(Get(df)[i])
                  ai_groups == ai_grid_groups(Get(charts).structure, Get(charts).skip_ai)
                  returned == Get(charts).outcome.value
                  single == {k \in DOMAIN returned :
                                returned[k].score = 92 /\ returned[k].x_column = kwargs.name}
                  in_grid == \/ Truthy(kwargs.grid_group)
                             \/ \E g \in DOMAIN ai_groups : kwargs.name \in Range(ai_groups[g])
              IN  (kwargs.is_likert /\ Truthy(kwargs.likert_order)) =>
                      IF in_grid THEN single = {}
                      ELSE /\ Cardinality(single) = 1
                           /\ \A k \in single : returned[k].spec.sort = kwargs.likert_order

\* C24: an integer column whose values lie in 1..10 but not all in 1..7 is
\* given the scale 1..10, and only a column that fits 0..10 without fitting
\* 1..10 is given the scale 0..10.
C24_CanonicalNumericScale ==
    (~IsNone(call) /\ Get(call).fn = "detect_numeric_likert") =>
        LET answers == Range(Get(call).arg.cells)
            order == Get(call).ret.order
        IN  /\ (answers \subseteq 1..10 /\ ~(answers \subseteq 1..7)) =>
                    order = Some([i \in 1..10 |-> i])
            /\ order = Some([i \in 1..11 |-> i - 1]) =>
                    (answers \subseteq 0..10 /\ ~(answers \subseteq 1..10))

\* C25: for two or three distinct values that are, up to case, among yes, no,
\* maybe (or among true, false, i don't know), detect_likert_scale reports a
\* Likert scale in the canonical order Yes, Maybe, No (True, False, I don't
\* know), spelled as the values are.
C25_SimpleScaleCanonicalOrder ==
    (~IsNone(call) /\ Get(call).fn = "detect_likert_scale") =>
        LET unique_values == Get(call).arg
            normalized == {lower(strip(v)) : v \in Range(unique_values)}
            Canonical(order) ==
                /\ Get(call).ret.is_likert
                /\ Get(call).ret.order = Some(MatchCase(order, unique_values))
        IN  (Len(unique_values) \in 2..3 /\ Cardinality(normalized) = Len(unique_values)) =>
                /\ normalized \subseteq {"yes", "no", "maybe"} =>
                        Canonical(<<"Yes", "Maybe", "No">>)
                /\ normalized \subseteq {"true", "false", "i don't know"} =>
                        Canonical(<<"True", "False", "I don't know">>)

\* C26: when the AI structure analysis fails, answering nothing or raising
\* while its answer is read, infer_charts returns exactly the candidates it
\* returns with skip_ai = true.
C26_AiFailureIsSkipAi ==
    (/\ ~IsNone(charts)
     /\ ~Get(charts).skip_ai
     /\ \/ IsNone(Get(charts).structure)
        \/ \E i \in DOMAIN Get(Get(charts).structure) :
              Get(Get(charts).structure)[i].malformed) =>
        /\ ~Get(charts).outcome.raised
        /\ \E group_order \in Orders(grid_groups(Get(profile), <<>>)) :
              Get(charts).outcome = infer_charts(Get(profile), None, TRUE, group_order)

\* C28: a table stored in the file cache is never modified afterwards: a
\* request served from the file cache, by either endpoint, leaves in the
\* cache the table it found there.
C28_CachedTableUntouched ==
    (~IsNone(request) /\ Get(request).hit) =>
        LET key == generate_file_cache_key(Get(request).file) IN
            /\ key \in DOMAIN file_cache._cache
            /\ file_cache._cache[key].data = Get(Get(request).found)

\* C29: a table is handed to profile_dataset only after it has passed
\* validate_file_content and clean_dataframe, also when it was served from
\* the file cache.
C29_ProfiledOnlyValidated ==
    (~IsNone(request) /\ ~IsNone(Get(request).handed)) =>
        LET frame == Get(Get(request).handed) IN
            /\ ~ValidationRaises(frame)
            /\ clean_dataframe(frame) = frame

\* C27: for every interleaving of requests handled at the same time by
\* CorrelationIDMiddleware, once all of them have completed the record
\* factory of the process is again the one installed before any of them
\* started.
C27_FactoryRestored ==
    (/\ DOMAIN middleware.requests # {}
     /\ \A r \in DOMAIN middleware.requests : middleware.requests[r].at = "done") =>
        middleware.factory = DefaultFactory

\* profile_dataset has gone through the columns of df
Profiled ==
    /\ ~IsNone(df)
    /\ \/ ~IsNone(profile)
       \/ ~IsNone(call) /\ Get(call).fn = "profile_dataset"

\* C30: for every column profile_dataset processes, the survey attributes it
\* computes are consistent: is_checkbox and is_likert are never both true;
\* is_likert comes with dtype ordinal and a non-empty likert_order;
\* likert_order is null when is_likert is false; a temporal or numeric
\* column is neither checkbox nor Likert and has no grid group.
C30_SurveyAttributesConsistent ==
    Profiled =>
        \A i \in DOMAIN Get(df) :
            LET kwargs == ColumnKwargs(Get(df)[i]) IN
                /\ ~(kwargs.is_checkbox /\ kwargs.is_likert)
                /\ kwargs.is_likert =>
                      kwargs.dtype = "ordinal" /\ Truthy(kwargs.likert_order)
                /\ ~kwargs.is_likert => IsNone(kwargs.likert_order)
                /\ kwargs.dtype \in {"temporal", "numeric"} =>
                      /\ ~kwargs.is_checkbox /\ ~kwargs.is_likert
                      /\ IsNone(kwargs.grid_group)

\* profile_dataset has processed a table holding a temporal column next to
\* a text column it found to be Likert
C30_Witness ==
    /\ Profiled
    /\ \E i \in DOMAIN Get(df) : ColumnKwargs(Get(df)[i]).dtype = "temporal"
    /\ \E i \in DOMAIN Get(df) :
          /\ Get(df)[i].dtype = "object"
          /\ ColumnKwargs(Get(df)[i]).is_likert

============================================================================
